---- MODULE Spec2Model ----
(***************************************************************************)
(* Model of the scene editor's state engine: the document model, the       *)
(* reducer modelReducer (store/modelActions.ts), its history               *)
(* post-processing and createInitialState.                                 *)
(*                                                                         *)
(* Node ids are positive integers handed out by generateId in increasing   *)
(* order.  JavaScript numbers are kept as integers in hundredths.          *)
(***************************************************************************)
EXTENDS Integers, Sequences, FiniteSets, TLC

(* ------------------------------ bounds --------------------------------- *)

\* number of actions dispatched in a behaviour of Spec
MaxSteps == 3
\* number of ids generateId hands out in a behaviour of Spec
MaxIds == 5
\* largest index dispatched with REORDER_CHILDREN
MaxIndex == 2
\* number of history-significant actions in a behaviour of SpecHist
MaxHistActs == 60
\* number of actions dispatched in a behaviour of SpecTree
MaxTreeSteps == 4
\* number of ids generateId hands out in a behaviour of SpecTree
MaxTreeIds == 7

(* ----------------------- JavaScript value model ------------------------ *)

\* the value `undefined` where a node id is expected (array hole of splice)
Undefined == 0
\* the value `null` (selection, findParent, JSON round trip of undefined)
Null == -1
\* an id that generateId never returns
GhostId == MaxIds + 1

\* 1.00 in hundredths
One == 100

\* { ...r, ...u } : object spread
Merge(r, u) ==
  [k \in (DOMAIN r) \cup (DOMAIN u) |-> IF k \in DOMAIN u THEN u[k] ELSE r[k]]

\* { ...f, [k]: v } on a Record<NodeId, ModelNode>
Put(f, k, v) ==
  [i \in (DOMAIN f) \cup {k} |-> IF i = k THEN v ELSE f[i]]

\* delete f[k] for every k in ks
Without(f, ks) == [i \in (DOMAIN f) \ ks |-> f[i]]

\* Array.prototype.filter((id) => id !== x)
RECURSIVE FilterOut(_, _)
FilterOut(seq, x) ==
  IF seq = <<>> THEN <<>>
  ELSE IF Head(seq) = x THEN FilterOut(Tail(seq), x)
       ELSE <<Head(seq)>> \o FilterOut(Tail(seq), x)

\* the start index of Array.prototype.splice, relative to length len
SpliceStart(start, len) ==
  IF start < 0 THEN (IF len + start < 0 THEN 0 ELSE len + start)
  ELSE (IF start > len THEN len ELSE start)

\* arr.splice(start, 1): the array that is left (0-based start)
SpliceRemove(arr, start) ==
  LET s == SpliceStart(start, Len(arr))
  IN IF s < Len(arr)
       THEN SubSeq(arr, 1, s) \o SubSeq(arr, s + 2, Len(arr))
       ELSE arr

\* const [moved] = arr.splice(start, 1): the removed element, or undefined
SpliceRemoved(arr, start) ==
  LET s == SpliceStart(start, Len(arr))
  IN IF s < Len(arr) THEN arr[s + 1] ELSE Undefined

\* arr.splice(start, 0, item)
SpliceInsert(arr, start, item) ==
  LET s == SpliceStart(start, Len(arr))
  IN SubSeq(arr, 1, s) \o <<item>> \o SubSeq(arr, s + 1, Len(arr))

\* JSON.parse(JSON.stringify(children)): undefined array entries become null
JsonArray(seq) ==
  [i \in 1..Len(seq) |-> IF seq[i] = Undefined THEN Null ELSE seq[i]]

\* JSON.parse(JSON.stringify(node))
JsonNode(node) ==
  IF "children" \in DOMAIN node
    THEN [node EXCEPT !.children = JsonArray(node.children)]
    ELSE node

\* JSON.parse(JSON.stringify(nodes))
JsonClone(nodes) == [i \in DOMAIN nodes |-> JsonNode(nodes[i])]

(* ------------------ numbers of the property panel ---------------------- *)
\* The panel computes with JavaScript numbers (IEEE-754 binary64). A number
\* other than 0 is [neg, exp, bits]: bits is its 53-bit significand, most
\* significant bit first with bits[1] = 1, and its value is
\* (+/-) 1.bits[2..53] * 2^exp. The significand of 0 is all zeros. Every
\* quotient and product is rounded to the nearest such number, ties to
\* even. -0 is not distinguished from 0.
Precision == 53

\* Width of the significands the panel's divisors and left factors have here:
\* the values that an input field or an earlier unlinked edit has stored.
ShortBits == 20

Zeros(n) == [i \in 1..n |-> 0]

RECURSIVE NatBits(_)
NatBits(k) == IF k < 2 THEN <<k>> ELSE Append(NatBits(k \div 2), k % 2)

RECURSIVE BitsNat(_)
BitsNat(bs) ==
  IF bs = <<>> THEN 0
  ELSE 2 * BitsNat(SubSeq(bs, 1, Len(bs) - 1)) + bs[Len(bs)]

\* bs without its leading zeros
StripZeros(bs) ==
  IF \A i \in 1..Len(bs) : bs[i] = 0 THEN <<>>
  ELSE LET f == CHOOSE i \in 1..Len(bs) :
                  bs[i] = 1 /\ \A j \in 1..(i - 1) : bs[j] = 0
       IN  SubSeq(bs, f, Len(bs))

Pad(bs, n) == bs \o Zeros(n - Len(bs))

\* bs + 1
IncBits(bs) ==
  IF \A i \in 1..Len(bs) : bs[i] = 1 THEN <<1>> \o Zeros(Len(bs))
  ELSE LET z == CHOOSE i \in 1..Len(bs) :
                  bs[i] = 0 /\ \A j \in (i + 1)..Len(bs) : bs[j] = 1
       IN  SubSeq(bs, 1, z - 1) \o <<1>> \o Zeros(Len(bs) - z)

\* round to nearest, ties to even: bs starts with 1, sticky tells that
\* non-zero digits follow bs. up = 1 when the rounding carried into a new
\* leading digit.
RoundBits(bs, sticky) ==
  IF Len(bs) <= Precision THEN [bits |-> Pad(bs, Precision), up |-> 0]
  ELSE
    LET kept  == SubSeq(bs, 1, Precision)
        guard == bs[Precision + 1]
        rest  == sticky \/ \E i \in (Precision + 2)..Len(bs) : bs[i] = 1
        roundUp == guard = 1 /\ (rest \/ kept[Precision] = 1)
        inc   == IncBits(kept)
    IN  IF ~roundUp THEN [bits |-> kept, up |-> 0]
        ELSE IF Len(inc) > Precision
             THEN [bits |-> SubSeq(inc, 1, Precision), up |-> 1]
             ELSE [bits |-> inc, up |-> 0]

\* Long multiplication and division work on digits of Limb bits, so that
\* every intermediate value stays below 2^31.
Limb == 8

\* bs as Len(bs) \div Limb digits (Len(bs) a multiple of Limb)
Limbs(bs) ==
  [i \in 1..(Len(bs) \div Limb) |->
     BitsNat(SubSeq(bs, (i - 1) * Limb + 1, i * Limb))]

LimbBits(n) == LET bs == NatBits(n) IN Zeros(Limb - Len(bs)) \o bs

\* bs with zeros in front, to a whole number of digits
Aligned(bs) == Zeros((Limb - (Len(bs) % Limb)) % Limb) \o bs

\* ls * k, least significant digit first with a carry
RECURSIVE MulFrom(_, _, _, _, _)
MulFrom(ls, k, i, carry, acc) ==
  IF i = 0 THEN (IF carry = 0 THEN <<>> ELSE NatBits(carry)) \o acc
  ELSE LET t == k * ls[i] + carry
           base == 2 ^ Limb
       IN  MulFrom(ls, k, i - 1, t \div base, LimbBits(t % base) \o acc)

\* ls / k by long division: quotient and remainder
RECURSIVE DivFrom(_, _, _, _, _)
DivFrom(ls, k, i, rem, acc) ==
  IF i > Len(ls) THEN [q |-> acc, rem |-> rem]
  ELSE LET t == (2 ^ Limb) * rem + ls[i]
       IN  DivFrom(ls, k, i + 1, t % k, acc \o LimbBits(t \div k))

Zero == [neg |-> FALSE, exp |-> 0, bits |-> Zeros(Precision)]

IsZero(d) == d.bits[1] = 0

IsShort(d) == \A i \in (ShortBits + 1)..Precision : d.bits[i] = 0

ShortNat(d) == BitsNat(SubSeq(d.bits, 1, ShortBits))

\* the number an integer converts to (|k| < 2^ShortBits)
FromInt(k) ==
  IF k = 0 THEN Zero
  ELSE LET bs == NatBits(IF k < 0 THEN -k ELSE k)
       IN  [neg |-> k < 0, exp |-> Len(bs) - 1, bits |-> Pad(bs, Precision)]

\* k * 2^e
Scaled(k, e) == LET d == FromInt(k) IN IF IsZero(d) THEN d ELSE [d EXCEPT !.exp = @ + e]

\* c * d, c short
Mul(c, d) ==
  IF IsZero(c) \/ IsZero(d) THEN Zero
  ELSE LET ls == Limbs(Aligned(d.bits))
           p  == StripZeros(MulFrom(ls, ShortNat(c), Len(ls), 0, <<>>))
           r == RoundBits(p, FALSE)
       IN  [neg  |-> c.neg # d.neg,
            exp  |-> (Len(p) - 1) + (c.exp - (ShortBits - 1))
                       + (d.exp - (Precision - 1)) + r.up,
            bits |-> r.bits]

\* d / b, b short and not 0
Div(d, b) ==
  IF IsZero(d) THEN Zero
  ELSE LET ext == ShortBits + 4
           dv  == DivFrom(Limbs(Aligned(d.bits \o Zeros(ext))),
                          ShortNat(b), 1, 0, <<>>)
           q   == StripZeros(dv.q)
           r   == RoundBits(q, dv.rem # 0)
       IN  [neg  |-> d.neg # b.neg,
            exp  |-> (Len(q) - 1) + (d.exp - (Precision - 1)) - ext
                       - (b.exp - (ShortBits - 1)) + r.up,
            bits |-> r.bits]

\* a < b for significands of one length
BitsLess(a, b) ==
  \E i \in 1..Len(a) :
    /\ a[i] < b[i]
    /\ \A j \in 1..(i - 1) : a[j] = b[j]

\* Math.abs(a) < Math.abs(b)
AbsLess(a, b) ==
  IF IsZero(b) THEN FALSE
  ELSE IF IsZero(a) THEN TRUE
  ELSE IF a.exp # b.exp THEN a.exp < b.exp
  ELSE BitsLess(a.bits, b.bits)

\* la + lb, digits of Limb bits, least significant digit first with a carry
RECURSIVE AddFrom(_, _, _, _, _)
AddFrom(la, lb, i, carry, acc) ==
  IF i = 0 THEN (IF carry = 0 THEN <<>> ELSE <<1>>) \o acc
  ELSE LET t == la[i] + lb[i] + carry
           base == 2 ^ Limb
       IN  AddFrom(la, lb, i - 1, t \div base, LimbBits(t % base) \o acc)

\* la - lb for la >= lb, with a borrow
RECURSIVE SubFrom(_, _, _, _, _)
SubFrom(la, lb, i, borrow, acc) ==
  IF i = 0 THEN acc
  ELSE LET t == la[i] - lb[i] - borrow
           base == 2 ^ Limb
       IN  SubFrom(la, lb, i - 1, IF t < 0 THEN 1 ELSE 0,
                   LimbBits(IF t < 0 THEN t + base ELSE t) \o acc)

Neg(d) == IF IsZero(d) THEN d ELSE [d EXCEPT !.neg = ~@]

\* a + b: the exact sum of the aligned significands, rounded. An operand
\* more than Precision + 2 binary places below the other is below half a
\* unit of the other's last place and rounds away.
Add(a, b) ==
  IF IsZero(a) THEN b
  ELSE IF IsZero(b) THEN a
  ELSE LET hi == IF AbsLess(a, b) THEN b ELSE a
           lo == IF AbsLess(a, b) THEN a ELSE b
           shift == hi.exp - lo.exp
       IN  IF shift > Precision + 2 THEN hi
           ELSE LET la == Limbs(Aligned(hi.bits \o Zeros(shift)))
                    lb == Limbs(Aligned(Zeros(shift) \o lo.bits))
                    s  == StripZeros(IF hi.neg = lo.neg
                                       THEN AddFrom(la, lb, Len(la), 0, <<>>)
                                       ELSE SubFrom(la, lb, Len(la), 0, <<>>))
                    r  == RoundBits(s, FALSE)
                IN  IF Len(s) = 0 THEN Zero
                    ELSE [neg  |-> hi.neg,
                          exp  |-> (Len(s) - 1) + (lo.exp - (Precision - 1))
                                     + r.up,
                          bits |-> r.bits]

\* a - b
Sub(a, b) == Add(a, Neg(b))

\* a < b
Less(a, b) ==
  IF IsZero(a) THEN ~IsZero(b) /\ ~b.neg
  ELSE IF IsZero(b) THEN a.neg
  ELSE IF a.neg # b.neg THEN a.neg
  ELSE IF a.neg THEN AbsLess(b, a)
  ELSE AbsLess(a, b)

\* Math.min(a, b)
MathMin(a, b) == IF Less(b, a) THEN b ELSE a

\* Math.PI = 0x400921FB54442D18
MathPI ==
  [neg |-> FALSE, exp |-> 1,
   bits |-> <<1,1,0,0,1,0,0,1,0,0,0,0,1,1,1,1,1,1,0,1,1,0,1,0,1,0,1,
              0,0,0,1,0,0,0,1,0,0,0,0,1,0,1,1,0,1,0,0,0,1,1,0,0,0>>]

\* 0.0001 = 0x3F1A36E2EB1C432D
Epsilon ==
  [neg |-> FALSE, exp |-> -14,
   bits |-> <<1,1,0,1,0,0,0,1,1,0,1,1,0,1,1,1,0,0,0,1,0,1,1,1,0,1,0,
              1,1,0,0,0,1,1,1,0,0,0,1,0,0,0,0,1,1,0,0,1,0,1,1,0,1>>]

(* ----------------------------- constants ------------------------------- *)

PrimitiveTypes == {"box", "cylinder", "cone", "sphere", "torus", "pyramid"}

PRIMITIVE_DEFAULTS ==
  [box      |-> [width |-> 100, height |-> 100, depth |-> 100],
   cylinder |-> [radius |-> 50, height |-> 100, segments |-> 3200],
   cone     |-> [radius |-> 50, height |-> 100, segments |-> 3200],
   sphere   |-> [radius |-> 50, segments |-> 3200],
   torus    |-> [radius |-> 50, tube |-> 20, segments |-> 3200],
   pyramid  |-> [width |-> 100, height |-> 100, depth |-> 100]]

DEFAULT_TRANSFORM ==
  [position |-> [x |-> 0, y |-> 0, z |-> 0],
   rotation |-> [x |-> 0, y |-> 0, z |-> 0],
   scale    |-> [x |-> One, y |-> One, z |-> One]]

\* the history cap of the post-processing step
HistoryCap == 50

(* ------------------------- tree query utilities ------------------------ *)

\* nodes[id] is defined
Exists(id, model) == id \in DOMAIN model.nodes

IsAssembly(id, model) ==
  Exists(id, model) /\ model.nodes[id].type = "assembly"

\* getChildren: the children of an assembly, empty for anything else
getChildren(nodeId, model) ==
  IF IsAssembly(nodeId, model) THEN model.nodes[nodeId].children ELSE <<>>

Range(seq) == {seq[i] : i \in 1..Len(seq)}

\* the ids reachable from the ids of `front` through children lists
RECURSIVE ReachFrom(_, _, _)
ReachFrom(front, seen, model) ==
  IF front = {} THEN seen
  ELSE LET next == UNION {Range(getChildren(i, model)) : i \in front}
       IN ReachFrom(next \ seen, seen \cup next, model)

\* getDescendants: all transitive children of nodeId
getDescendants(nodeId, model) ==
  ReachFrom(Range(getChildren(nodeId, model)),
            Range(getChildren(nodeId, model)), model)

\* findParent: the first assembly whose children contain nodeId, or null
findParent(nodeId, model) ==
  LET ps == {p \in DOMAIN model.nodes :
               /\ model.nodes[p].type = "assembly"
               /\ nodeId \in Range(model.nodes[p].children)}
  IN IF ps = {} THEN Null
     ELSE CHOOSE p \in ps : \A q \in ps : p <= q

\* validateTreeMove: the new parent is neither the node nor a descendant
validateTreeMove(nodeId, newParentId, model) ==
  /\ newParentId # nodeId
  /\ newParentId \notin getDescendants(nodeId, model)

(* ------------------------------ the state ------------------------------ *)

\* generateId: the next unused id; ids are never reused
generateId(n) == n

\* the snapshot stored in history for a state (history field empty)
Snapshot(st) ==
  [model        |-> [rootId |-> st.model.rootId,
                     nodes  |-> JsonClone(st.model.nodes)],
   selection    |-> st.selection,
   history      |-> <<>>,
   historyIndex |-> -1]

\* createInitialState that returns the state before the first snapshot is
\* stored
createInitialState_NoSnapshot ==
  LET rootId   == generateId(1)
      rootNode == [id |-> rootId, type |-> "assembly", name |-> "Root",
                   transform |-> DEFAULT_TRANSFORM, visible |-> TRUE,
                   children |-> <<>>]
  IN [model        |-> [rootId |-> rootId, nodes |-> Put(<<>>, rootId, rootNode)],
      selection    |-> [selectedNodeId |-> Null, hoveredNodeId |-> Null],
      history      |-> <<>>,
      historyIndex |-> -1]

\* createInitialState, with the root id drawn first from generateId
createInitialState ==
  LET rootId   == generateId(1)
      rootNode == [id |-> rootId, type |-> "assembly", name |-> "Root",
                   transform |-> DEFAULT_TRANSFORM, visible |-> TRUE,
                   children |-> <<>>]
      initialState ==
        [model        |-> [rootId |-> rootId, nodes |-> Put(<<>>, rootId, rootNode)],
         selection    |-> [selectedNodeId |-> Null, hoveredNodeId |-> Null],
         history      |-> <<>>,
         historyIndex |-> -1]
  IN [initialState EXCEPT !.history = <<Snapshot(initialState)>>,
                          !.historyIndex = 0]

\* shouldSaveToHistory
shouldSaveToHistory(action) ==
  action.type \notin {"SELECT_NODE", "UNDO", "REDO"}

\* state.model with a new nodes map
WithNodes(st, nodes) == [st EXCEPT !.model.nodes = nodes]

\* [...children, id]
Push(node, id) == [node EXCEPT !.children = Append(node.children, id)]

(* ------------------------- DUPLICATE_NODE helper ----------------------- *)

\* the copy of one source node under a new id
CloneOf(src, newId) ==
  IF src.type = "primitive"
    THEN [src EXCEPT !.id = newId, !.name = src.name \o " (copy)"]
    ELSE [src EXCEPT !.id = newId, !.name = src.name \o " (copy)",
                     !.children = <<>>]

\* the recursion of duplicateNode does not end: a cycle below nodeId
DuplicateLoops(nodeId, model) ==
  \E i \in {nodeId} \cup getDescendants(nodeId, model) :
     i \in getDescendants(i, model)

RECURSIVE duplicateNode(_, _, _, _)
RECURSIVE duplicateChildren(_, _, _, _, _)

\* the loop over sourceNode.children: returns nodes, the id counter and
\* the list of the ids duplicateNode returned
duplicateChildren(children, newId, nodes, n, newChildren) ==
  IF children = <<>>
    THEN [nodes |-> nodes, n |-> n, newChildren |-> newChildren]
    ELSE LET r == duplicateNode(Head(children), newId, nodes, n)
         IN duplicateChildren(Tail(children), newId, r.nodes, r.n,
                              Append(newChildren, r.id))

\* a duplicateNode that copies the source node alone: an assembly's copy
\* keeps the source's children
duplicateNode_Shallow(sourceId, newParentId, nodes, n) ==
  IF sourceId \notin DOMAIN nodes
    THEN [nodes |-> nodes, id |-> sourceId, n |-> n]
    ELSE
      LET newId   == generateId(n)
          created == Put(nodes, newId,
                         [nodes[sourceId] EXCEPT
                            !.id = newId,
                            !.name = nodes[sourceId].name \o " (copy)"])
          linked ==
            IF newParentId \in DOMAIN created
               /\ created[newParentId].type = "assembly"
              THEN Put(created, newParentId, Push(created[newParentId], newId))
              ELSE created
      IN [nodes |-> linked, id |-> newId, n |-> n + 1]

\* duplicateNode(sourceId, newParentId, nodes), n the id counter
duplicateNode(sourceId, newParentId, nodes, n) ==
  IF sourceId \notin DOMAIN nodes
    THEN [nodes |-> nodes, id |-> sourceId, n |-> n]
    ELSE
      LET sourceNode == nodes[sourceId]
          newId      == generateId(n)
          created    == Put(nodes, newId, CloneOf(sourceNode, newId))
          r ==
            IF sourceNode.type = "primitive"
              THEN [nodes |-> created, n |-> n + 1]
              ELSE LET c == duplicateChildren(sourceNode.children, newId,
                                              created, n + 1, <<>>)
                   IN [nodes |->
                         IF c.nodes[newId].type = "assembly"
                           THEN Put(c.nodes, newId,
                                    [c.nodes[newId] EXCEPT
                                       !.children = c.newChildren])
                           ELSE c.nodes,
                       n |-> c.n]
          linked ==
            IF newParentId \in DOMAIN r.nodes
               /\ r.nodes[newParentId].type = "assembly"
              THEN Put(r.nodes, newParentId, Push(r.nodes[newParentId], newId))
              ELSE r.nodes
      IN [nodes |-> linked, id |-> newId, n |-> r.n]

(* ----------------------------- the reducer ----------------------------- *)

\* transform: { ...node.transform, position: { ...old, ...partial }, ... }
MergeTransform(t, partial) ==
  [f \in DOMAIN t |->
     IF f \in DOMAIN partial THEN Merge(t[f], partial[f]) ELSE t[f]]

\* ADD_PRIMITIVE that puts the new id first in the parent's children
ADD_PRIMITIVE_First(state, action, n) ==
  LET newNodeId == generateId(n)
      parent    == state.model.nodes[action.parentId]
      newPrimitive ==
        [id |-> newNodeId, type |-> "primitive", name |-> action.name,
         primitiveType |-> action.primitiveType,
         properties |-> PRIMITIVE_DEFAULTS[action.primitiveType],
         transform |-> DEFAULT_TRANSFORM, visible |-> TRUE,
         color |-> "#ffffff"]
  IN IF parent.type # "assembly" THEN state
     ELSE [WithNodes(state,
             Put(Put(state.model.nodes, newNodeId, newPrimitive),
                 action.parentId,
                 [parent EXCEPT !.children = <<newNodeId>> \o parent.children]))
           EXCEPT !.selection.selectedNodeId = newNodeId]

ADD_PRIMITIVE(state, action, n) ==
  LET newNodeId == generateId(n)
      parent    == state.model.nodes[action.parentId]
      newPrimitive ==
        [id |-> newNodeId, type |-> "primitive", name |-> action.name,
         primitiveType |-> action.primitiveType,
         properties |-> PRIMITIVE_DEFAULTS[action.primitiveType],
         transform |-> DEFAULT_TRANSFORM, visible |-> TRUE,
         color |-> "#ffffff"]
  IN IF parent.type # "assembly" THEN state
     ELSE [WithNodes(state,
             Put(Put(state.model.nodes, newNodeId, newPrimitive),
                 action.parentId, Push(parent, newNodeId)))
           EXCEPT !.selection.selectedNodeId = newNodeId]

\* ADD_ASSEMBLY that selects the new assembly, as ADD_PRIMITIVE does
ADD_ASSEMBLY_Selected(state, action, n) ==
  LET newNodeId == generateId(n)
      parent    == state.model.nodes[action.parentId]
      newAssembly ==
        [id |-> newNodeId, type |-> "assembly", name |-> action.name,
         transform |-> DEFAULT_TRANSFORM, visible |-> TRUE,
         children |-> <<>>]
  IN IF parent.type # "assembly" THEN state
     ELSE [WithNodes(state,
             Put(Put(state.model.nodes, newNodeId, newAssembly),
                 action.parentId, Push(parent, newNodeId)))
           EXCEPT !.selection.selectedNodeId = newNodeId]

ADD_ASSEMBLY(state, action, n) ==
  LET newNodeId == generateId(n)
      parent    == state.model.nodes[action.parentId]
      newAssembly ==
        [id |-> newNodeId, type |-> "assembly", name |-> action.name,
         transform |-> DEFAULT_TRANSFORM, visible |-> TRUE,
         children |-> <<>>]
  IN IF parent.type # "assembly" THEN state
     ELSE WithNodes(state,
            Put(Put(state.model.nodes, newNodeId, newAssembly),
                action.parentId, Push(parent, newNodeId)))

\* DELETE_NODE that removes the node and leaves its descendants in nodes
DELETE_NODE_Shallow(state, action) ==
  IF ~Exists(action.nodeId, state.model) THEN state
  ELSE
    LET parent == findParent(action.nodeId, state.model)
    IN IF parent # Null /\ state.model.nodes[parent].type = "assembly"
         THEN LET parentNode  == state.model.nodes[parent]
                  newChildren == FilterOut(parentNode.children, action.nodeId)
                  nodes       == Without(state.model.nodes, {action.nodeId})
              IN [WithNodes(state,
                    Put(nodes, parent,
                        [parentNode EXCEPT !.children = newChildren]))
                  EXCEPT !.selection =
                    IF state.selection.selectedNodeId = action.nodeId
                      THEN [state.selection EXCEPT !.selectedNodeId = Null]
                      ELSE state.selection]
         ELSE state

DELETE_NODE(state, action) ==
  IF ~Exists(action.nodeId, state.model) THEN state
  ELSE
    LET descendants    == getDescendants(action.nodeId, state.model)
        allIdsToDelete == {action.nodeId} \cup descendants
        parent         == findParent(action.nodeId, state.model)
    IN IF parent # Null /\ state.model.nodes[parent].type = "assembly"
         THEN LET parentNode  == state.model.nodes[parent]
                  newChildren == FilterOut(parentNode.children, action.nodeId)
                  nodes       == Without(state.model.nodes, allIdsToDelete)
              IN [WithNodes(state,
                    Put(nodes, parent,
                        [parentNode EXCEPT !.children = newChildren]))
                  EXCEPT !.selection =
                    IF state.selection.selectedNodeId = action.nodeId
                      THEN [state.selection EXCEPT !.selectedNodeId = Null]
                      ELSE state.selection]
         ELSE state

UPDATE_NODE(state, action) ==
  IF ~Exists(action.nodeId, state.model) THEN state
  ELSE WithNodes(state,
         Put(state.model.nodes, action.nodeId,
             Merge(state.model.nodes[action.nodeId], action.updates)))

\* UPDATE_TRANSFORM that merges the partial over the default transform
\* instead of over the node's own
UPDATE_TRANSFORM_Reset(state, action) ==
  IF ~Exists(action.nodeId, state.model) THEN state
  ELSE LET node == state.model.nodes[action.nodeId]
       IN WithNodes(state,
            Put(state.model.nodes, action.nodeId,
                [node EXCEPT !.transform =
                   [f \in DOMAIN node.transform |->
                      IF f \in DOMAIN action.transform
                        THEN Merge(DEFAULT_TRANSFORM[f], action.transform[f])
                        ELSE node.transform[f]]]))

UPDATE_TRANSFORM(state, action) ==
  IF ~Exists(action.nodeId, state.model) THEN state
  ELSE LET node == state.model.nodes[action.nodeId]
       IN WithNodes(state,
            Put(state.model.nodes, action.nodeId,
                [node EXCEPT !.transform =
                   MergeTransform(node.transform, action.transform)]))

\* REORDER_CHILDREN that exchanges the children at fromIndex and toIndex
REORDER_CHILDREN_Swap(state, action) ==
  LET parent == state.model.nodes[action.parentId]
      n      == Len(parent.children)
  IN IF parent.type # "assembly" THEN state
     ELSE IF action.fromIndex \notin 0..(n - 1)
             \/ action.toIndex \notin 0..(n - 1) THEN state
     ELSE WithNodes(state,
            Put(state.model.nodes, action.parentId,
                [parent EXCEPT
                   !.children =
                     [i \in 1..n |->
                        IF i = action.fromIndex + 1
                          THEN parent.children[action.toIndex + 1]
                        ELSE IF i = action.toIndex + 1
                          THEN parent.children[action.fromIndex + 1]
                        ELSE parent.children[i]]]))

REORDER_CHILDREN(state, action) ==
  LET parent == state.model.nodes[action.parentId]
  IN IF parent.type # "assembly" THEN state
     ELSE LET moved       == SpliceRemoved(parent.children, action.fromIndex)
              removed     == SpliceRemove(parent.children, action.fromIndex)
              newChildren == SpliceInsert(removed, action.toIndex, moved)
          IN WithNodes(state,
               Put(state.model.nodes, action.parentId,
                   [parent EXCEPT !.children = newChildren]))

\* MOVE_NODE without the validateTreeMove guard
MOVE_NODE_Unvalidated(state, action) ==
  IF ~Exists(action.newParentId, state.model) THEN state
  ELSE
    LET oldParent == findParent(action.nodeId, state.model)
        newParent == state.model.nodes[action.newParentId]
    IN IF newParent.type # "assembly" THEN state
       ELSE
         LET detached ==
               IF oldParent # Null
                  /\ state.model.nodes[oldParent].type = "assembly"
                 THEN Put(state.model.nodes, oldParent,
                          [state.model.nodes[oldParent] EXCEPT
                             !.children = FilterOut(@, action.nodeId)])
                 ELSE state.model.nodes
         IN WithNodes(state,
              Put(detached, action.newParentId,
                  Push(newParent, action.nodeId)))

MOVE_NODE(state, action) ==
  IF ~validateTreeMove(action.nodeId, action.newParentId, state.model)
    THEN state
  ELSE
    LET oldParent == findParent(action.nodeId, state.model)
        newParent == state.model.nodes[action.newParentId]
    IN IF newParent.type # "assembly" THEN state
       ELSE
         LET detached ==
               IF oldParent # Null
                  /\ state.model.nodes[oldParent].type = "assembly"
                 THEN Put(state.model.nodes, oldParent,
                          [state.model.nodes[oldParent] EXCEPT
                             !.children = FilterOut(@, action.nodeId)])
                 ELSE state.model.nodes
         IN WithNodes(state,
              Put(detached, action.newParentId,
                  Push(newParent, action.nodeId)))

\* SELECT_NODE that ignores an id with no node in the model
SELECT_NODE_Existing(state, action) ==
  IF action.nodeId # Null /\ ~Exists(action.nodeId, state.model) THEN state
  ELSE [state EXCEPT !.selection.selectedNodeId = action.nodeId]

SELECT_NODE(state, action) ==
  [state EXCEPT !.selection.selectedNodeId = action.nodeId]

RENAME_NODE(state, action) ==
  IF ~Exists(action.nodeId, state.model) THEN state
  ELSE WithNodes(state,
         Put(state.model.nodes, action.nodeId,
             [state.model.nodes[action.nodeId] EXCEPT !.name = action.name]))

\* TOGGLE_VISIBILITY that flips the node's descendants with it
TOGGLE_VISIBILITY_Cascade(state, action) ==
  IF ~Exists(action.nodeId, state.model) THEN state
  ELSE LET flipped == ({action.nodeId}
                         \cup getDescendants(action.nodeId, state.model))
                      \cap DOMAIN state.model.nodes
       IN WithNodes(state,
            [i \in DOMAIN state.model.nodes |->
               IF i \in flipped
                 THEN [state.model.nodes[i] EXCEPT !.visible = ~@]
                 ELSE state.model.nodes[i]])

TOGGLE_VISIBILITY(state, action) ==
  IF ~Exists(action.nodeId, state.model) THEN state
  ELSE WithNodes(state,
         Put(state.model.nodes, action.nodeId,
             [state.model.nodes[action.nodeId] EXCEPT !.visible = ~@]))

UPDATE_PRIMITIVE_PROPERTIES(state, action) ==
  IF ~Exists(action.nodeId, state.model)
     \/ state.model.nodes[action.nodeId].type # "primitive"
    THEN state
  ELSE LET node == state.model.nodes[action.nodeId]
       IN WithNodes(state,
            Put(state.model.nodes, action.nodeId,
                Merge(node, [properties |->
                               IF "properties" \in DOMAIN node
                                 THEN Merge(node.properties, action.properties)
                                 ELSE action.properties])))

\* DUPLICATE_NODE gets past its three guards
DuplicateApplies(state, action) ==
  /\ Exists(action.nodeId, state.model)
  /\ action.nodeId # state.model.rootId
  /\ findParent(action.nodeId, state.model) # Null
  /\ state.model.nodes[findParent(action.nodeId, state.model)].type = "assembly"

\* DUPLICATE_NODE that leaves the selection where it was
DUPLICATE_NODE_Unselected(state, action, n) ==
  IF ~DuplicateApplies(state, action) THEN state
  ELSE LET parent == findParent(action.nodeId, state.model)
           d == duplicateNode(action.nodeId, parent, state.model.nodes, n)
       IN WithNodes(state, d.nodes)

DUPLICATE_NODE(state, action, n) ==
  IF ~DuplicateApplies(state, action) THEN state
  ELSE LET parent == findParent(action.nodeId, state.model)
           d == duplicateNode(action.nodeId, parent, state.model.nodes, n)
       IN [WithNodes(state, d.nodes)
           EXCEPT !.selection.selectedNodeId = d.id]

\* UNDO that restores the entry at the current index instead of the one
\* before it
UNDO_Current(state) ==
  IF state.historyIndex > 0
    THEN LET previousState == state.history[state.historyIndex + 1]
         IN [previousState EXCEPT !.history = state.history,
                                  !.historyIndex = state.historyIndex - 1]
    ELSE state

UNDO(state) ==
  IF state.historyIndex > 0
    THEN LET previousState == state.history[state.historyIndex]
         IN [previousState EXCEPT !.history = state.history,
                                  !.historyIndex = state.historyIndex - 1]
    ELSE state

\* REDO that restores the entry at the current index instead of the next one
REDO_Current(state) ==
  IF state.historyIndex < Len(state.history) - 1
    THEN LET nextState == state.history[state.historyIndex + 1]
         IN [nextState EXCEPT !.history = state.history,
                              !.historyIndex = state.historyIndex + 1]
    ELSE state

REDO(state) ==
  IF state.historyIndex < Len(state.history) - 1
    THEN LET nextState == state.history[state.historyIndex + 2]
         IN [nextState EXCEPT !.history = state.history,
                              !.historyIndex = state.historyIndex + 1]
    ELSE state

(* ------------------ modelReducer: dispatch and history ----------------- *)

\* the reducer throws a TypeError (property read on undefined) or overflows
\* the call stack instead of returning a state
Throws(state, action) ==
  CASE action.type \in {"ADD_PRIMITIVE", "ADD_ASSEMBLY", "REORDER_CHILDREN"} ->
         ~Exists(action.parentId, state.model)
    [] action.type = "MOVE_NODE" ->
         /\ validateTreeMove(action.nodeId, action.newParentId, state.model)
         /\ ~Exists(action.newParentId, state.model)
    [] action.type = "DUPLICATE_NODE" ->
         /\ DuplicateApplies(state, action)
         /\ DuplicateLoops(action.nodeId, state.model)
    [] OTHER -> FALSE

\* the switch statement: the state after the action, before history is saved
ApplyAction(state, action, n) ==
  CASE action.type = "ADD_PRIMITIVE"    -> ADD_PRIMITIVE(state, action, n)
    [] action.type = "ADD_ASSEMBLY"     -> ADD_ASSEMBLY(state, action, n)
    [] action.type = "DELETE_NODE"      -> DELETE_NODE(state, action)
    [] action.type = "UPDATE_NODE"      -> UPDATE_NODE(state, action)
    [] action.type = "UPDATE_TRANSFORM" -> UPDATE_TRANSFORM(state, action)
    [] action.type = "REORDER_CHILDREN" -> REORDER_CHILDREN(state, action)
    [] action.type = "MOVE_NODE"        -> MOVE_NODE(state, action)
    [] action.type = "RENAME_NODE"      -> RENAME_NODE(state, action)
    [] action.type = "TOGGLE_VISIBILITY" -> TOGGLE_VISIBILITY(state, action)
    [] action.type = "UPDATE_PRIMITIVE_PROPERTIES" ->
         UPDATE_PRIMITIVE_PROPERTIES(state, action)
    [] action.type = "DUPLICATE_NODE"   -> DUPLICATE_NODE(state, action, n)
    [] OTHER -> state

\* the post-processing step without the truncation of the future entries
SaveToHistory_NoTrim(state, newState) ==
  LET pushed == Append(state.history, Snapshot(newState))
  IN IF Len(pushed) > HistoryCap
       THEN [newState EXCEPT !.history = Tail(pushed),
                             !.historyIndex = HistoryCap - 1]
       ELSE [newState EXCEPT !.history = pushed,
                             !.historyIndex = Len(pushed) - 1]

\* the post-processing step without the eviction of the oldest entry
SaveToHistory_NoCap(state, newState) ==
  LET trimmedHistory == SubSeq(state.history, 1, state.historyIndex + 1)
      pushed         == Append(trimmedHistory, Snapshot(newState))
  IN [newState EXCEPT !.history = pushed,
                      !.historyIndex = Len(pushed) - 1]

\* saving without a deep copy: the entry at historyIndex shares the live
\* model, so it shows the change the action made
SaveToHistory_Shared(state, newState) ==
  LET trimmedHistory == SubSeq(state.history, 1, state.historyIndex + 1)
      shared         == [trimmedHistory EXCEPT
                           ![Len(trimmedHistory)] = Snapshot(newState)]
      pushed         == Append(shared, Snapshot(newState))
  IN IF Len(pushed) > HistoryCap
       THEN [newState EXCEPT !.history = Tail(pushed),
                             !.historyIndex = HistoryCap - 1]
       ELSE [newState EXCEPT !.history = pushed,
                             !.historyIndex = Len(pushed) - 1]

\* the post-processing step: truncate, append the snapshot, apply the cap
SaveToHistory(state, newState) ==
  LET trimmedHistory == SubSeq(state.history, 1, state.historyIndex + 1)
      pushed         == Append(trimmedHistory, Snapshot(newState))
  IN IF Len(pushed) > HistoryCap
       THEN [newState EXCEPT !.history = Tail(pushed),
                             !.historyIndex = HistoryCap - 1]
       ELSE [newState EXCEPT !.history = pushed,
                             !.historyIndex = Len(pushed) - 1]

\* modelReducer(state, action), n the id generateId returns next
modelReducer(state, action, n) ==
  CASE action.type = "UNDO" -> UNDO(state)
    [] action.type = "REDO" -> REDO(state)
    [] action.type = "SELECT_NODE" -> SELECT_NODE(state, action)
    [] OTHER -> SaveToHistory(state, ApplyAction(state, action, n))

\* the id generateId returns after the reducer has run
IdAfter(state, action, n) ==
  CASE action.type \in {"ADD_PRIMITIVE", "ADD_ASSEMBLY"} -> n + 1
    [] action.type = "DUPLICATE_NODE" ->
         IF DuplicateApplies(state, action)
            /\ ~DuplicateLoops(action.nodeId, state.model)
           THEN duplicateNode(action.nodeId,
                              findParent(action.nodeId, state.model),
                              state.model.nodes, n).n
           ELSE n
    [] OTHER -> n

(* ------------------- the property panel's functions -------------------- *)

\* a % b of JavaScript on integers: the remainder has the sign of a
JsRem(a, b) == IF a >= 0 THEN a % b ELSE -((-a) % b)

\* normalizeAngle that folds into 0..359
normalizeAngle_Positive(degrees) == (JsRem(degrees, 360) + 360) % 360

\* normalizeAngle(degrees), degrees an integer
normalizeAngle(degrees) ==
  LET normalized == JsRem(degrees, 360)
  IN  IF normalized > 180 THEN normalized - 360
      ELSE IF normalized < -180 THEN normalized + 360
      ELSE normalized

\* convertValue of handleTransformChange: the number stored for the input
\* val, an integer typed into the field
convertValue(field, val) ==
  IF field = "rotation"
    THEN Div(Mul(FromInt(normalizeAngle(val)), MathPI), FromInt(180))
    ELSE FromInt(val)

\* the transform handleTransformChange dispatches for a linked field
linkedTransform(current, axis, actualValue) ==
  LET oldValue == current[axis]
  IN  IF AbsLess(oldValue, Epsilon)
        THEN [x |-> actualValue, y |-> actualValue, z |-> actualValue]
        ELSE LET ratio == Div(actualValue, oldValue)
             IN  [x |-> Mul(current.x, ratio),
                  y |-> Mul(current.y, ratio),
                  z |-> Mul(current.z, ratio)]

\* the number that a value kept in hundredths stands for: 20 is 0.2
Number(h) == Div(FromInt(h), FromInt(One))

\* properties[key] ?? default
OrElse(properties, key, default) ==
  IF key \in DOMAIN properties THEN properties[key] ELSE default

\* the size the panel displays for a primitive's properties
getPrimitiveSize(primitiveType, properties) ==
  CASE primitiveType \in {"box", "pyramid"} ->
         [x |-> OrElse(properties, "width", Number(100)),
          y |-> OrElse(properties, "height", Number(100)),
          z |-> OrElse(properties, "depth", Number(100))]
    [] primitiveType \in {"cylinder", "cone"} ->
         LET radius == OrElse(properties, "radius", Number(50))
         IN  [x |-> Mul(FromInt(2), radius),
              y |-> OrElse(properties, "height", Number(100)),
              z |-> Mul(FromInt(2), radius)]
    [] primitiveType = "sphere" ->
         LET sphereRadius == OrElse(properties, "radius", Number(50))
         IN  [x |-> Mul(FromInt(2), sphereRadius),
              y |-> Mul(FromInt(2), sphereRadius),
              z |-> Mul(FromInt(2), sphereRadius)]
    [] primitiveType = "torus" ->
         LET torusRadius == OrElse(properties, "radius", Number(50))
             tube        == OrElse(properties, "tube", Number(20))
         IN  [x |-> Mul(FromInt(2), Add(torusRadius, tube)),
              y |-> Mul(FromInt(2), tube),
              z |-> Mul(FromInt(2), Add(torusRadius, tube))]
    [] OTHER -> [x |-> Number(100), y |-> Number(100), z |-> Number(100)]

\* the properties a size edit of one axis stores
updatePrimitiveFromSize(primitiveType, currentProperties, isLinked, axis, value) ==
  LET currentSize == getPrimitiveSize(primitiveType, currentProperties)
      newSize == IF isLinked
                   THEN linkedTransform(currentSize, axis, value)
                   ELSE [currentSize EXCEPT ![axis] = value]
  IN  CASE primitiveType \in {"box", "pyramid"} ->
             Merge(currentProperties,
                   [width |-> newSize.x, height |-> newSize.y,
                    depth |-> newSize.z])
        [] primitiveType \in {"cylinder", "cone"} ->
             Merge(currentProperties,
                   [radius |-> Div(newSize.x, FromInt(2)),
                    height |-> newSize.y])
        [] primitiveType = "sphere" ->
             Merge(currentProperties,
                   [radius |-> Div(newSize.x, FromInt(2))])
        [] primitiveType = "torus" ->
             LET outerRadius == Div(MathMin(newSize.x, newSize.z), FromInt(2))
             IN  Merge(currentProperties,
                       [radius |-> Sub(outerRadius,
                                       Div(newSize.y, FromInt(4))),
                        tube   |-> Div(newSize.y, FromInt(2))])
        [] OTHER -> currentProperties

(* ----------------------------- TreeControls ---------------------------- *)

\* the parentId TreeControls puts into ADD_PRIMITIVE and ADD_ASSEMBLY
TreeControlsParentId(st) ==
  LET selectedNodeId == IF st.selection.selectedNodeId # Null
                          THEN st.selection.selectedNodeId
                          ELSE st.model.rootId
  IN  IF ~Exists(selectedNodeId, st.model) THEN st.model.rootId
      ELSE IF st.model.nodes[selectedNodeId].type = "assembly"
        THEN selectedNodeId
      ELSE LET parent == findParent(selectedNodeId, st.model)
           IN  IF parent # Null THEN parent ELSE st.model.rootId

(* ------------------------------ variables ------------------------------ *)

VARIABLES
  state,    \* the ModelState held by useReducer
  nextId,   \* the id generateId returns next
  threw,    \* the reducer threw: the component tree is gone
  last,     \* the last action dispatched and the state it was applied to
  last2,    \* type and historyIndex of the dispatch before the last one
  run,      \* observer of the run A1..An, UNDO.., REDO.. from the start
  steps,    \* number of steps taken: actions dispatched, links toggled
  linkedFields  \* the property panel's set of linked fields

vars == <<state, nextId, threw, last, last2, run, steps, linkedFields>>

\* model and selection of a state
View(st) == [model |-> st.model, selection |-> st.selection]

\* the observer: counts the history-significant actions applied from the
\* initial state (n), the UNDOs that follow them (u), the REDOs after those
\* (r), and keeps the model and selection as of An
RunAfter(rn, action, st, failed) ==
  IF failed THEN [rn EXCEPT !.phase = "off"]
  ELSE CASE rn.phase = "acts" /\ shouldSaveToHistory(action) ->
              [rn EXCEPT !.n = @ + 1]
         [] rn.phase = "acts" /\ action.type = "UNDO" /\ rn.n > 0 ->
              [rn EXCEPT !.phase = "undos", !.u = 1, !.final = View(st)]
         [] rn.phase = "undos" /\ action.type = "UNDO" ->
              [rn EXCEPT !.u = @ + 1]
         [] rn.phase = "undos" /\ action.type = "REDO" ->
              [rn EXCEPT !.phase = "redos", !.r = 1]
         [] rn.phase = "redos" /\ action.type = "REDO" ->
              [rn EXCEPT !.r = @ + 1]
         [] OTHER -> [rn EXCEPT !.phase = "off"]

Init ==
  /\ state = createInitialState
  /\ nextId = 2
  /\ threw = FALSE
  /\ last = [action |-> [type |-> "INIT"], before |-> createInitialState]
  /\ last2 = [type |-> "INIT", historyIndex |-> 0]
  /\ run = [phase |-> "acts", n |-> 0, u |-> 0, r |-> 0,
            final |-> View(createInitialState)]
  /\ steps = 0
  /\ linkedFields = {}

\* one reducer invocation, processed to completion
Reduce(action) ==
  /\ ~threw
  /\ IF Throws(state, action)
       THEN /\ state' = state
            /\ threw' = TRUE
       ELSE /\ state' = modelReducer(state, action, nextId)
            /\ threw' = FALSE
  /\ nextId' = IdAfter(state, action, nextId)
  /\ last2' = [type |-> last.action.type,
               historyIndex |-> last.before.historyIndex]
  /\ run' = RunAfter(run, action, state, Throws(state, action))
  /\ steps' = steps + 1

\* dispatch(action) of a component that leaves the panel's links alone
Dispatch(action) ==
  /\ Reduce(action)
  /\ last' = [action |-> action, before |-> state]
  /\ UNCHANGED linkedFields

(* --------------------- the actions a client dispatches ----------------- *)

\* node ids an action can carry: every id generated so far, whether it is
\* still in the model or deleted since
IdInputs == 1..(nextId - 1)

\* the same, and one id that was never generated
IdOrGhost == IdInputs \cup {GhostId}

FromIndexInputs == (-1)..MaxIndex

ToIndexInputs == 0..MaxIndex

DispatchedTypes == {"sphere"}

UpdateInputs ==
  {[color |-> "#ff0000"], [type |-> "primitive"],
   [children |-> <<state.model.rootId>>]}

TransformInputs ==
  {[position |-> [x |-> 500], scale |-> [y |-> 200]],
   [rotation |-> [z |-> 9000]]}

\* the bounds of a behaviour of Spec
Within(action) ==
  /\ steps < MaxSteps
  /\ IdAfter(state, action, nextId) <= MaxIds + 1

AddPrimitive ==
  \E parentId \in IdOrGhost, primitiveType \in DispatchedTypes :
    LET a == [type |-> "ADD_PRIMITIVE", parentId |-> parentId,
              primitiveType |-> primitiveType, name |-> "Mesh"]
    IN Within(a) /\ Dispatch(a)

AddAssembly ==
  \E parentId \in IdOrGhost :
    LET a == [type |-> "ADD_ASSEMBLY", parentId |-> parentId,
              name |-> "Assembly"]
    IN Within(a) /\ Dispatch(a)

DeleteNode ==
  \E nodeId \in IdOrGhost :
    LET a == [type |-> "DELETE_NODE", nodeId |-> nodeId]
    IN Within(a) /\ Dispatch(a)

UpdateNode ==
  \E nodeId \in IdInputs, updates \in UpdateInputs :
    LET a == [type |-> "UPDATE_NODE", nodeId |-> nodeId, updates |-> updates]
    IN Within(a) /\ Dispatch(a)

UpdateTransform ==
  \E nodeId \in IdInputs, transform \in TransformInputs :
    LET a == [type |-> "UPDATE_TRANSFORM", nodeId |-> nodeId,
              transform |-> transform]
    IN Within(a) /\ Dispatch(a)

ReorderChildren ==
  \E parentId \in IdInputs, fromIndex \in FromIndexInputs,
     toIndex \in ToIndexInputs :
    LET a == [type |-> "REORDER_CHILDREN", parentId |-> parentId,
              fromIndex |-> fromIndex, toIndex |-> toIndex]
    IN Within(a) /\ Dispatch(a)

MoveNode ==
  \E nodeId \in IdOrGhost, newParentId \in IdOrGhost :
    LET a == [type |-> "MOVE_NODE", nodeId |-> nodeId,
              newParentId |-> newParentId]
    IN Within(a) /\ Dispatch(a)

SelectNode ==
  \E nodeId \in IdOrGhost \cup {Null} :
    LET a == [type |-> "SELECT_NODE", nodeId |-> nodeId]
    IN Within(a) /\ Dispatch(a)

RenameNode ==
  \E nodeId \in IdInputs :
    LET a == [type |-> "RENAME_NODE", nodeId |-> nodeId, name |-> "Renamed"]
    IN Within(a) /\ Dispatch(a)

ToggleVisibility ==
  \E nodeId \in IdInputs :
    LET a == [type |-> "TOGGLE_VISIBILITY", nodeId |-> nodeId]
    IN Within(a) /\ Dispatch(a)

UpdatePrimitiveProperties ==
  \E nodeId \in IdInputs :
    LET a == [type |-> "UPDATE_PRIMITIVE_PROPERTIES", nodeId |-> nodeId,
              properties |-> [radius |-> 75]]
    IN Within(a) /\ Dispatch(a)

DuplicateNode ==
  \E nodeId \in IdInputs :
    LET a == [type |-> "DUPLICATE_NODE", nodeId |-> nodeId]
    IN Within(a) /\ Dispatch(a)

Undo == Within([type |-> "UNDO"]) /\ Dispatch([type |-> "UNDO"])

Redo == Within([type |-> "REDO"]) /\ Dispatch([type |-> "REDO"])

Next ==
  \/ AddPrimitive
  \/ AddAssembly
  \/ DeleteNode
  \/ UpdateNode
  \/ UpdateTransform
  \/ ReorderChildren
  \/ MoveNode
  \/ SelectNode
  \/ RenameNode
  \/ ToggleVisibility
  \/ UpdatePrimitiveProperties
  \/ DuplicateNode
  \/ Undo
  \/ Redo

Spec == Init /\ [][Next]_vars

(* ------------- the long run: A1..An, then UNDOs, then REDOs ------------ *)

\* the k-th history-significant action of the long run moves the root to x = k
HistAct ==
  \E k \in 1..MaxHistActs :
    /\ run.phase = "acts"
    /\ k = run.n + 1
    /\ Dispatch([type |-> "UPDATE_TRANSFORM", nodeId |-> state.model.rootId,
                 transform |-> [position |-> [x |-> k * One]]])

\* UNDO, up to once more than there were actions
HistUndo ==
  /\ \/ run.phase = "acts" /\ run.n > 0
     \/ run.phase = "undos" /\ run.u <= run.n
  /\ Dispatch([type |-> "UNDO"])

\* REDO after the UNDOs, up to once more than there were UNDOs
HistRedo ==
  /\ \/ run.phase = "undos"
     \/ run.phase = "redos" /\ run.r <= run.u
  /\ Dispatch([type |-> "REDO"])

\* a new action after UNDOs, which ends the run by starting a new branch
HistBranch ==
  /\ run.phase = "undos"
  /\ Dispatch([type |-> "UPDATE_TRANSFORM", nodeId |-> state.model.rootId,
               transform |-> [position |-> [x |-> (run.n + 1) * One]]])

\* a selection among the actions or the UNDOs, which ends the run
HistSelect ==
  /\ run.phase \in {"acts", "undos"}
  /\ Dispatch([type |-> "SELECT_NODE", nodeId |-> state.model.rootId])

NextHist == HistAct \/ HistUndo \/ HistRedo \/ HistBranch \/ HistSelect

SpecHist == Init /\ [][NextHist]_vars

(* ---- the tree editor: well-formed structural actions, deeper trees ---- *)

\* the bounds of a behaviour of SpecTree
WithinTree(action) ==
  /\ steps < MaxTreeSteps
  /\ IdAfter(state, action, nextId) <= MaxTreeIds + 1

\* the ids of the nodes of the current model
NodeIds == DOMAIN state.model.nodes

\* the ids of the assemblies of the current model
AssemblyIds == {p \in NodeIds : state.model.nodes[p].type = "assembly"}

TreeAddPrimitive ==
  \E parentId \in AssemblyIds, primitiveType \in DispatchedTypes :
    LET a == [type |-> "ADD_PRIMITIVE", parentId |-> parentId,
              primitiveType |-> primitiveType, name |-> "Mesh"]
    IN WithinTree(a) /\ Dispatch(a)

TreeAddAssembly ==
  \E parentId \in AssemblyIds :
    LET a == [type |-> "ADD_ASSEMBLY", parentId |-> parentId,
              name |-> "Assembly"]
    IN WithinTree(a) /\ Dispatch(a)

TreeDelete ==
  \E nodeId \in NodeIds :
    LET a == [type |-> "DELETE_NODE", nodeId |-> nodeId]
    IN WithinTree(a) /\ Dispatch(a)

TreeDuplicate ==
  \E nodeId \in NodeIds :
    LET a == [type |-> "DUPLICATE_NODE", nodeId |-> nodeId]
    IN WithinTree(a) /\ Dispatch(a)

TreeMove ==
  \E nodeId \in NodeIds, newParentId \in AssemblyIds :
    LET a == [type |-> "MOVE_NODE", nodeId |-> nodeId,
              newParentId |-> newParentId]
    IN WithinTree(a) /\ Dispatch(a)

TreeReorder ==
  \E parentId \in AssemblyIds :
    \E fromIndex \in 0..(Len(state.model.nodes[parentId].children) - 1),
       toIndex \in 0..(Len(state.model.nodes[parentId].children) - 1) :
      LET a == [type |-> "REORDER_CHILDREN", parentId |-> parentId,
                fromIndex |-> fromIndex, toIndex |-> toIndex]
      IN WithinTree(a) /\ Dispatch(a)

TreeUndo ==
  LET a == [type |-> "UNDO"] IN WithinTree(a) /\ Dispatch(a)

TreeRedo ==
  LET a == [type |-> "REDO"] IN WithinTree(a) /\ Dispatch(a)

\* the drop targets of the tree view: the sortable row of a node other than
\* the root, the droppable area `drop-<id>` of an assembly, or none
OverInputs ==
  {[droppable |-> FALSE, id |-> id] :
     id \in NodeIds \ {state.model.rootId}}
    \cup {[droppable |-> TRUE, id |-> id] : id \in AssemblyIds}
    \cup {[droppable |-> FALSE, id |-> Null]}

\* Array.prototype.indexOf, zero-based, -1 when absent
IndexOf(seq, v) ==
  IF \E i \in 1..Len(seq) : seq[i] = v
    THEN (CHOOSE i \in 1..Len(seq) :
            seq[i] = v /\ \A j \in 1..(i - 1) : seq[j] # v) - 1
    ELSE -1

\* handleDragEnd that moves a node dropped on an assembly without comparing
\* the assembly with the node's parent
handleDragEnd_AnyAssembly(activeId, over, model) ==
  IF over.id = Null \/ (~over.droppable /\ activeId = over.id) THEN <<>>
  ELSE IF /\ Exists(over.id, model)
          /\ model.nodes[over.id].type = "assembly"
          /\ validateTreeMove(activeId, over.id, model)
    THEN <<[type |-> "MOVE_NODE", nodeId |-> activeId,
            newParentId |-> over.id]>>
    ELSE <<>>

\* handleDragEnd({ active, over }): the actions it dispatches, in order
handleDragEnd(activeId, over, model) ==
  IF over.id = Null \/ (~over.droppable /\ activeId = over.id) THEN <<>>
  ELSE
    LET overId       == over.id
        isOverAssembly ==
          Exists(overId, model) /\ model.nodes[overId].type = "assembly"
        activeParent == findParent(activeId, model)
        overParent   == findParent(overId, model)
    IN  IF /\ isOverAssembly
           /\ activeParent # overId
           /\ validateTreeMove(activeId, overId, model)
          THEN <<[type |-> "MOVE_NODE", nodeId |-> activeId,
                  newParentId |-> overId]>>
        ELSE IF /\ activeParent # Null
                /\ overParent # Null
                /\ activeParent = overParent
                /\ activeParent # overId
                /\ Exists(activeParent, model)
                /\ model.nodes[activeParent].type = "assembly"
          THEN LET children  == model.nodes[activeParent].children
                   fromIndex == IndexOf(children, activeId)
                   toIndex   == IndexOf(children, overId)
               IN  IF fromIndex # -1 /\ toIndex # -1
                     THEN <<[type |-> "REORDER_CHILDREN",
                             parentId |-> activeParent,
                             fromIndex |-> fromIndex, toIndex |-> toIndex]>>
                     ELSE <<>>
        ELSE <<>>

\* a drag of a row of the tree that ends over a drop target and dispatches
TreeDrag ==
  \E activeId \in NodeIds \ {state.model.rootId}, over \in OverInputs :
    LET dispatched == handleDragEnd(activeId, over, state.model)
    IN  /\ dispatched # <<>>
        /\ WithinTree(dispatched[1])
        /\ Reduce(dispatched[1])
        /\ last' = [action |-> dispatched[1], before |-> state,
                    drag |-> [activeId |-> activeId, over |-> over,
                              dispatched |-> dispatched]]
        /\ UNCHANGED linkedFields

NextTree ==
  \/ TreeAddPrimitive
  \/ TreeAddAssembly
  \/ TreeDelete
  \/ TreeDuplicate
  \/ TreeMove
  \/ TreeReorder
  \/ TreeUndo
  \/ TreeRedo
  \/ TreeDrag

SpecTree == Init /\ [][NextTree]_vars

(* ---------- the property panel: transform fields and their links ------ *)

\* steps of a behaviour of SpecPanel
MaxPanelSteps == 2

Vec(x, y, z) == [x |-> x, y |-> y, z |-> z]

Axes == {"x", "y", "z"}

Fields == {"position", "rotation", "scale"}

\* the integers typed into a position or scale field
ValueInputs == {1, 4}

\* the degrees typed into a rotation field
DegreeInputs == {270, -181, 540}

\* position and scale of the selected node when the panel opens: values that
\* unlinked edits have stored (2^-14 is a typed 0.00006103515625)
PositionInputs ==
  {Vec(FromInt(2), FromInt(3), FromInt(1)),
   Vec(FromInt(2), Zero, Zero),
   Vec(FromInt(49), FromInt(7), FromInt(1)),
   Vec(Scaled(1, -14), FromInt(1), FromInt(3))}

ScaleInputs ==
  {Vec(FromInt(1), FromInt(1), FromInt(1)),
   Vec(FromInt(3), FromInt(1), FromInt(2))}

\* a primitive under the root, placed and selected
PanelState(position, scale) ==
  LET s0 == createInitialState
      s1 == modelReducer(s0, [type |-> "ADD_PRIMITIVE",
                              parentId |-> s0.model.rootId,
                              primitiveType |-> "box", name |-> "Box"], 2)
      s2 == modelReducer(s1, [type |-> "UPDATE_TRANSFORM",
                              nodeId |-> generateId(2),
                              transform |-> [position |-> position,
                                             rotation |-> Vec(Zero, Zero, Zero),
                                             scale |-> scale]], 3)
  IN  modelReducer(s2, [type |-> "SELECT_NODE", nodeId |-> generateId(2)], 3)

InitPanel ==
  /\ \E position \in PositionInputs, scale \in ScaleInputs :
       state = PanelState(position, scale)
  /\ nextId = 3
  /\ threw = FALSE
  /\ last = [action |-> [type |-> "INIT"], before |-> createInitialState]
  /\ last2 = [type |-> "INIT", historyIndex |-> 0]
  /\ run = [phase |-> "off", n |-> 0, u |-> 0, r |-> 0,
            final |-> View(createInitialState)]
  /\ steps = 0
  /\ linkedFields = {}

\* the panel shows the selected node unless it is the root
PanelNode ==
  IF /\ state.selection.selectedNodeId # Null
     /\ Exists(state.selection.selectedNodeId, state.model)
     /\ state.selection.selectedNodeId # state.model.rootId
    THEN state.selection.selectedNodeId
    ELSE Null

\* the divisions and products of linkedTransform stay within the operands
\* that Div and Mul take
LinkedComputable(current, axis) ==
  \/ AbsLess(current[axis], Epsilon)
  \/ \A other \in Axes : IsShort(current[other])

\* toggleLink(field)
PanelToggleLink ==
  \E field \in Fields :
    /\ steps < MaxPanelSteps
    /\ ~threw
    /\ PanelNode # Null
    /\ linkedFields' = IF field \in linkedFields
                         THEN linkedFields \ {field}
                         ELSE linkedFields \cup {field}
    /\ steps' = steps + 1
    /\ UNCHANGED <<state, nextId, threw, last, last2, run>>

\* handleTransformChange(field, axis, value)
PanelTransformChange ==
  \E field \in Fields, axis \in Axes,
     value \in ValueInputs \cup DegreeInputs :
    LET isLinked    == field \in linkedFields
        node        == state.model.nodes[PanelNode]
        current     == node.transform[field]
        actualValue == convertValue(field, value)
        new == IF isLinked
                 THEN linkedTransform(current, axis, actualValue)
                 ELSE [current EXCEPT ![axis] = actualValue]
        a == [type |-> "UPDATE_TRANSFORM", nodeId |-> node.id,
              transform |-> (field :> new)]
    IN  /\ steps < MaxPanelSteps
        /\ PanelNode # Null
        /\ value \in (IF field = "rotation" THEN DegreeInputs ELSE ValueInputs)
        /\ isLinked => LinkedComputable(current, axis)
        /\ Reduce(a)
        /\ last' = [action |-> a, before |-> state,
                    edit |-> [field |-> field, axis |-> axis, value |-> value,
                              linked |-> isLinked]]
        /\ UNCHANGED linkedFields

NextPanel == PanelToggleLink \/ PanelTransformChange

SpecPanel == InitPanel /\ [][NextPanel]_vars

(* ------------------- the property panel's size fields ------------------ *)

MaxSizeSteps == 2

\* the numbers typed into a size field
SizeInputs == {Zero, FromInt(2), FromInt(3)}

\* the properties of the selected primitive when the panel opens: the
\* defaults of its type, and for a torus also a tube of 0.25
PropertyInputs(primitiveType) ==
  LET defaults == [k \in DOMAIN PRIMITIVE_DEFAULTS[primitiveType] |->
                     Number(PRIMITIVE_DEFAULTS[primitiveType][k])]
  IN  IF primitiveType = "torus"
        THEN {defaults, [defaults EXCEPT !.tube = Scaled(1, -2)]}
        ELSE {defaults}

\* a primitive under the root with these properties, selected
SizeState(primitiveType, properties) ==
  LET s0 == createInitialState
      s1 == modelReducer(s0, [type |-> "ADD_PRIMITIVE",
                              parentId |-> s0.model.rootId,
                              primitiveType |-> primitiveType,
                              name |-> primitiveType], 2)
      s2 == modelReducer(s1, [type |-> "UPDATE_PRIMITIVE_PROPERTIES",
                              nodeId |-> generateId(2),
                              properties |-> properties], 3)
  IN  modelReducer(s2, [type |-> "SELECT_NODE", nodeId |-> generateId(2)], 3)

InitSize ==
  /\ \E primitiveType \in PrimitiveTypes :
       \E properties \in PropertyInputs(primitiveType) :
         state = SizeState(primitiveType, properties)
  /\ nextId = 3
  /\ threw = FALSE
  /\ last = [action |-> [type |-> "INIT"], before |-> createInitialState]
  /\ last2 = [type |-> "INIT", historyIndex |-> 0]
  /\ run = [phase |-> "off", n |-> 0, u |-> 0, r |-> 0,
            final |-> View(createInitialState)]
  /\ steps = 0
  /\ linkedFields = {}

\* toggleLink("size")
SizeToggleLink ==
  /\ steps < MaxSizeSteps
  /\ ~threw
  /\ PanelNode # Null
  /\ linkedFields' = IF "size" \in linkedFields
                       THEN linkedFields \ {"size"}
                       ELSE linkedFields \cup {"size"}
  /\ steps' = steps + 1
  /\ UNCHANGED <<state, nextId, threw, last, last2, run>>

\* handleSizeChange(axis, value): a typed number, or the number the field
\* shows already
PanelSizeChange ==
  /\ steps < MaxSizeSteps
  /\ PanelNode # Null
  /\ state.model.nodes[PanelNode].type = "primitive"
  /\ \E axis \in Axes :
       LET isLinked == "size" \in linkedFields
           node     == state.model.nodes[PanelNode]
       IN  \E currentSize \in {getPrimitiveSize(node.primitiveType,
                                                node.properties)} :
           \E value \in SizeInputs \cup {currentSize[axis]} :
             /\ isLinked => LinkedComputable(currentSize, axis)
             /\ \E newProperties \in
                     {updatePrimitiveFromSize(node.primitiveType,
                                              node.properties, isLinked,
                                              axis, value)} :
                  LET a == [type |-> "UPDATE_PRIMITIVE_PROPERTIES",
                            nodeId |-> state.selection.selectedNodeId,
                            properties |-> newProperties]
                  IN  /\ Reduce(a)
                      /\ last' = [action |-> a, before |-> state,
                                  edit |-> [field |-> "size", axis |-> axis,
                                            value |-> value,
                                            linked |-> isLinked]]
                      /\ UNCHANGED linkedFields

NextSize == SizeToggleLink \/ PanelSizeChange

SpecSize == InitSize /\ [][NextSize]_vars

(* ------------------------------- claims -------------------------------- *)

\* the assemblies of a model
Assemblies(model) ==
  {p \in DOMAIN model.nodes : model.nodes[p].type = "assembly"}

\* the places <<parent, index>> where id occurs in an assembly's children
Places(id, model) ==
  {pi \in UNION {{<<p, i>> : i \in 1..Len(model.nodes[p].children)} :
                 p \in Assemblies(model)} :
     model.nodes[pi[1]].children[pi[2]] = id}

\* C1: in every reachable state every node id other than rootId occurs in
\* exactly one assembly's children list, exactly once, and the children
\* edges form no cycle.
C1_TreeInvariant ==
  /\ \A id \in DOMAIN state.model.nodes \ {state.model.rootId} :
       Cardinality(Places(id, state.model)) = 1
  /\ \A id \in DOMAIN state.model.nodes :
       id \notin getDescendants(id, state.model)

\* C2: in every reachable state every entry of every assembly's children
\* list is a key of model.nodes.
C2_ChildrenExist ==
  \A p \in Assemblies(state.model) :
    \A i \in 1..Len(state.model.nodes[p].children) :
      state.model.nodes[p].children[i] \in DOMAIN state.model.nodes

\* C3: in every reachable state nodes[rootId] exists and is an assembly,
\* rootId is in no assembly's children list, and rootId never changes.
C3_RootProtected ==
  /\ state.model.rootId = createInitialState.model.rootId
  /\ IsAssembly(state.model.rootId, state.model)
  /\ Places(state.model.rootId, state.model) = {}

\* the action fails its precondition in state st (the cases C4 lists)
FailsPrecondition(st, a) ==
  LET missing(id) == ~Exists(id, st.model)
      primitive(id) == Exists(id, st.model)
                         /\ st.model.nodes[id].type = "primitive"
  IN CASE a.type \in {"DELETE_NODE", "DUPLICATE_NODE"} ->
            a.nodeId = st.model.rootId \/ missing(a.nodeId)
       [] a.type = "MOVE_NODE" ->
            \/ ~validateTreeMove(a.nodeId, a.newParentId, st.model)
            \/ primitive(a.newParentId)
       [] a.type \in {"ADD_PRIMITIVE", "ADD_ASSEMBLY", "REORDER_CHILDREN"} ->
            primitive(a.parentId)
       [] a.type \in {"UPDATE_NODE", "UPDATE_TRANSFORM", "RENAME_NODE",
                      "TOGGLE_VISIBILITY"} ->
            missing(a.nodeId)
       [] a.type = "UPDATE_PRIMITIVE_PROPERTIES" ->
            Exists(a.nodeId, st.model)
              /\ st.model.nodes[a.nodeId].type = "assembly"
       [] OTHER -> FALSE

\* C4: when the action dispatched last failed its precondition, the state
\* the reducer returned equals its input in model, selection, history and
\* historyIndex.
C4_FailedActionIsNoOp ==
  (~threw /\ FailsPrecondition(last.before, last.action))
    => state = last.before

\* C5: modelReducer never throws, whatever the action and the state.
C5_NeverThrows == ~threw

\* the last action was MOVE_NODE of a node into itself or a descendant
MoveIntoOwnSubtree ==
  /\ last.action.type = "MOVE_NODE"
  /\ \/ last.action.newParentId = last.action.nodeId
     \/ last.action.newParentId
          \in getDescendants(last.action.nodeId, last.before.model)

\* C6: MOVE_NODE of a node into itself or into one of its transitive
\* descendants leaves the model (nodes and rootId) unchanged.
C6_CycleRejection ==
  MoveIntoOwnSubtree => state.model = last.before.model

\* a MOVE_NODE of an existing assembly into a proper descendant was applied
C6_Witness ==
  /\ MoveIntoOwnSubtree
  /\ ~threw
  /\ last.action.newParentId # last.action.nodeId
  /\ IsAssembly(last.action.newParentId, last.before.model)

\* C7: after n <= 50 history-significant actions from the initial state,
\* n UNDOs give the initial model and selection, and n REDOs after them
\* give the model and selection as of the n-th action.
C7_UndoRedoRoundTrip ==
  /\ (run.phase = "undos" /\ run.u = run.n /\ run.n <= 50)
       => View(state) = View(createInitialState)
  /\ (run.phase = "redos" /\ run.u = run.n /\ run.r = run.n /\ run.n <= 50)
       => View(state) = run.final

\* the number of the action whose snapshot this is, in the long run
SnapshotNumber(snap) ==
  snap.model.nodes[snap.model.rootId].transform.position.x \div One

\* C8: after 60 history-significant actions history.length is 50, exactly
\* the 10 oldest snapshots (numbers 0..9) are gone, and UNDO has an effect
\* for 50 steps and none after.
C8_HistoryCap ==
  (run.n = 60 /\ run.phase \in {"acts", "undos"}) =>
    /\ Len(state.history) = 50
    /\ SnapshotNumber(state.history[1]) = 10
    /\ (run.phase = "undos" =>
          IF run.u <= 50 THEN View(state) # View(last.before)
                         ELSE state = last.before)

\* C9: after an UNDO from historyIndex i > 0 and then a history-significant
\* action, history has length i + 1: the i entries before position i as they
\* were, followed by the new snapshot; historyIndex is i; REDO changes
\* nothing.
C9_BranchDiscard ==
  (/\ last2.type = "UNDO"
   /\ last2.historyIndex > 0
   /\ shouldSaveToHistory(last.action)
   /\ ~threw)
  => LET i == last2.historyIndex
     IN /\ Len(state.history) = i + 1
        /\ state.historyIndex = i
        /\ SubSeq(state.history, 1, i) = SubSeq(last.before.history, 1, i)
        /\ state.history[i + 1] = Snapshot(state)
        /\ REDO(state) = state

\* an edit was applied right after an UNDO that had snapshots ahead of it
C9_Witness ==
  /\ last2.type = "UNDO"
  /\ last2.historyIndex > 0
  /\ shouldSaveToHistory(last.action)
  /\ ~threw
  /\ Len(last.before.history) > last2.historyIndex
  /\ state.model # last.before.model

\* C10: in every reachable state 1 <= history.length <= 50 and
\* 0 <= historyIndex <= history.length - 1, and every snapshot in history
\* has an empty history field.
C10_HistoryBounds ==
  /\ Len(state.history) >= 1
  /\ Len(state.history) <= 50
  /\ state.historyIndex >= 0
  /\ state.historyIndex <= Len(state.history) - 1
  /\ \A i \in 1..Len(state.history) : state.history[i].history = <<>>

\* the cap was applied: more than 50 snapshots were taken, 50 are kept
C10_Witness ==
  /\ run.phase = "acts"
  /\ run.n > 50
  /\ Len(state.history) = 50
  /\ state.historyIndex = 49

\* C11: UNDO with historyIndex > 0 returns the model and selection of
\* history[historyIndex - 1], historyIndex one less and the same history;
\* UNDO with historyIndex = 0 returns the state unchanged.
C11_Undo ==
  last.action.type = "UNDO" =>
    LET b == last.before
    IN IF b.historyIndex > 0
         THEN /\ View(state) = View(b.history[b.historyIndex])
              /\ state.historyIndex = b.historyIndex - 1
              /\ state.history = b.history
         ELSE state = b

\* an UNDO went one entry back and changed the model
C11_Witness ==
  /\ last.action.type = "UNDO"
  /\ last.before.historyIndex > 0
  /\ state.model # last.before.model

\* C12: REDO with historyIndex < history.length - 1 returns the model and
\* selection of history[historyIndex + 1], historyIndex one more and the
\* same history; REDO at the last index returns the state unchanged.
C12_Redo ==
  last.action.type = "REDO" =>
    LET b == last.before
    IN IF b.historyIndex < Len(b.history) - 1
         THEN /\ View(state) = View(b.history[b.historyIndex + 2])
              /\ state.historyIndex = b.historyIndex + 1
              /\ state.history = b.history
         ELSE state = b

\* a REDO went one entry forward and changed the model
C12_Witness ==
  /\ last.action.type = "REDO"
  /\ last.before.historyIndex < Len(last.before.history) - 1
  /\ state.model # last.before.model

\* C13: every action other than SELECT_NODE, UNDO and REDO yields a history
\* equal to the old history[0..historyIndex] followed by exactly one new
\* snapshot (the oldest entry dropped when the length would exceed 50); the
\* new snapshot's model and selection equal the returned state's, and the
\* returned historyIndex is the index of that last entry.
C13_OneSnapshotPerAction ==
  (shouldSaveToHistory(last.action) /\ last.action.type # "INIT" /\ ~threw) =>
    LET b      == last.before
        kept   == SubSeq(b.history, 1, b.historyIndex + 1)
        n      == Len(state.history)
        capped == Len(kept) + 1 > HistoryCap
    IN /\ n = IF capped THEN HistoryCap ELSE Len(kept) + 1
       /\ SubSeq(state.history, 1, n - 1) =
            (IF capped THEN Tail(kept) ELSE kept)
       /\ View(state.history[n]) = View(state)
       /\ state.historyIndex = n - 1

\* C14: SELECT_NODE(id or null) sets selection.selectedNodeId to the given
\* value and leaves model, selection.hoveredNodeId, history and historyIndex
\* unchanged, in every state and for every id, present in the model or not.
C14_SelectFrame ==
  last.action.type = "SELECT_NODE" =>
    /\ ~threw
    /\ state.selection.selectedNodeId = last.action.nodeId
    /\ state.selection.hoveredNodeId = last.before.selection.hoveredNodeId
    /\ state.model = last.before.model
    /\ state.history = last.before.history
    /\ state.historyIndex = last.before.historyIndex

\* an id with no node in the model was selected, replacing another selection
C14_Witness ==
  /\ last.action.type = "SELECT_NODE"
  /\ last.action.nodeId # Null
  /\ last.action.nodeId \notin DOMAIN last.before.model.nodes
  /\ last.before.selection.selectedNodeId \in DOMAIN last.before.model.nodes
  /\ state.selection.selectedNodeId = last.action.nodeId

\* C15: no action changes the content of a snapshot that remains in
\* history: after a history-significant action every old entry at position
\* i <= old historyIndex is found unchanged at position i (at i - 1 when the
\* oldest entry was evicted); UNDO, REDO and SELECT_NODE change no entry.
C15_SnapshotsKept ==
  (last.action.type # "INIT" /\ ~threw) =>
    LET b == last.before
    IN IF shouldSaveToHistory(last.action)
         THEN LET evicted == b.historyIndex + 2 > HistoryCap
                  shift   == IF evicted THEN 1 ELSE 0
              IN \A i \in 0..b.historyIndex :
                   (i - shift >= 0) =>
                     /\ i - shift < Len(state.history)
                     /\ state.history[i - shift + 1] = b.history[i + 1]
         ELSE state.history = b.history

\* a history-significant action evicted the oldest of 50 entries and kept
\* the other 49
C15_Witness ==
  /\ shouldSaveToHistory(last.action)
  /\ last.action.type # "INIT"
  /\ ~threw
  /\ Len(last.before.history) = HistoryCap
  /\ last.before.historyIndex = HistoryCap - 1
  /\ state.history[1] = last.before.history[2]
  /\ state.model # last.before.model

\* C16: DELETE_NODE of a non-root node with N transitive descendants removes
\* exactly that node and its N descendants from model.nodes (N + 1 keys),
\* removes the id from its parent's children keeping the order of the
\* remaining children, and leaves every other node unchanged.
C16_DeleteSubtree ==
  (/\ last.action.type = "DELETE_NODE"
   /\ Exists(last.action.nodeId, last.before.model)
   /\ last.action.nodeId # last.before.model.rootId) =>
    LET id          == last.action.nodeId
        old         == last.before.model
        descendants == getDescendants(id, old) \cap DOMAIN old.nodes
        N           == Cardinality(descendants)
        removed     == DOMAIN old.nodes \ DOMAIN state.model.nodes
        parent      == findParent(id, old)
    IN /\ ~threw
       /\ removed = {id} \cup descendants
       /\ Cardinality(removed) = N + 1
       /\ DOMAIN state.model.nodes \subseteq DOMAIN old.nodes
       /\ parent \in DOMAIN state.model.nodes
       /\ state.model.nodes[parent] =
            [old.nodes[parent] EXCEPT
               !.children = FilterOut(old.nodes[parent].children, id)]
       /\ \A other \in DOMAIN state.model.nodes \ {parent} :
            state.model.nodes[other] = old.nodes[other]

\* C17: DELETE_NODE(rootId) and DUPLICATE_NODE(rootId) leave model and
\* selection unchanged in every reachable state.
C17_RootKept ==
  (/\ last.action.type \in {"DELETE_NODE", "DUPLICATE_NODE"}
   /\ last.action.nodeId = last.before.model.rootId) =>
    /\ ~threw
    /\ View(state) = View(last.before)

\* C18: DELETE_NODE of a non-root node that is the currently selected node
\* results in selection.selectedNodeId = null; DELETE_NODE of a node that is
\* not the selected node leaves selection unchanged.
C18_DeleteSelection ==
  (/\ last.action.type = "DELETE_NODE"
   /\ Exists(last.action.nodeId, last.before.model)
   /\ last.action.nodeId # last.before.model.rootId) =>
    /\ ~threw
    /\ IF last.before.selection.selectedNodeId = last.action.nodeId
         THEN state.selection.selectedNodeId = Null
         ELSE state.selection = last.before.selection

\* the number of entries of children lists met below id, each descendant
\* counted once per listing; an entry with no node is not counted
RECURSIVE Listings(_, _)
Listings(id, model) ==
  LET children == getChildren(id, model)
      RECURSIVE Sum(_)
      Sum(i) == IF i = 0 THEN 0
                ELSE Sum(i - 1)
                     + (IF Exists(children[i], model)
                          THEN 1 + Listings(children[i], model) ELSE 0)
  IN Sum(Len(children))

\* DUPLICATE_NODE of a non-root assembly that has a parent has returned
DuplicatedAssembly ==
  /\ last.action.type = "DUPLICATE_NODE"
  /\ ~threw
  /\ Exists(last.action.nodeId, last.before.model)
  /\ last.action.nodeId # last.before.model.rootId
  /\ last.before.model.nodes[last.action.nodeId].type = "assembly"
  /\ findParent(last.action.nodeId, last.before.model) # Null

\* C19 as stated: DUPLICATE_NODE on a non-root assembly with K transitive
\* descendants adds exactly K new nodes to model.nodes.
C19_AddsK ==
  DuplicatedAssembly =>
    LET old == last.before.model
        K   == Cardinality(getDescendants(last.action.nodeId, old)
                             \cap DOMAIN old.nodes)
    IN Cardinality(DOMAIN state.model.nodes \ DOMAIN old.nodes) = K

\* C19: DUPLICATE_NODE on a non-root assembly that has a parent and K
\* transitive descendants (one listed more than once counted once per
\* listing) adds exactly K + 1 new nodes to model.nodes, the copy of the
\* assembly and one copy per descendant, under ids that are pairwise
\* distinct and distinct from every id already in the model.
C19_AddsKPlusOne ==
  DuplicatedAssembly =>
    LET old    == last.before.model
        id     == last.action.nodeId
        added  == DOMAIN state.model.nodes \ DOMAIN old.nodes
        parent == findParent(id, old)
    IN /\ DOMAIN old.nodes \subseteq DOMAIN state.model.nodes
       /\ Cardinality(added) = Listings(id, old) + 1
       /\ added = nextId - Cardinality(added) .. nextId - 1
       /\ \A i \in added : state.model.nodes[i].id = i
       /\ \A i \in DOMAIN old.nodes \ {parent} :
            state.model.nodes[i] = old.nodes[i]

\* an assembly with a child and a grandchild was duplicated: three new nodes
C19_Witness ==
  /\ DuplicatedAssembly
  /\ \E c \in getDescendants(last.action.nodeId, last.before.model) :
       getDescendants(c, last.before.model) # {}
  /\ Cardinality(DOMAIN state.model.nodes \ DOMAIN last.before.model.nodes) = 3

\* node c of model new is a copy of node s of model old, and so is every
\* level below: same kind, name with " (copy)", the other fields equal, as
\* many children in the same order, each a copy under an id of `added`
RECURSIVE IsCopy(_, _, _, _, _)
IsCopy(c, s, old, new, added) ==
  /\ s \in DOMAIN old.nodes
  /\ c \in added
  /\ LET src == old.nodes[s]
         cpy == new.nodes[c]
     IN /\ cpy.type = src.type
        /\ cpy.name = src.name \o " (copy)"
        /\ DOMAIN cpy = DOMAIN src
        /\ \A f \in DOMAIN src \ {"id", "name", "children"} : cpy[f] = src[f]
        /\ "children" \in DOMAIN src =>
             /\ Len(cpy.children) = Len(src.children)
             /\ \A i \in 1..Len(src.children) :
                  IsCopy(cpy.children[i], src.children[i], old, new, added)

\* C20: after DUPLICATE_NODE the subtree rooted at the clone is isomorphic
\* to the source subtree: same node kinds, same number and relative order of
\* children at every level, every clone's transform, visible, primitiveType,
\* properties and color equal to its source's, every clone's name its
\* source's name followed by " (copy)", and no clone shares a child id with
\* the source subtree.
C20_CloneIsomorphic ==
  (/\ last.action.type = "DUPLICATE_NODE"
   /\ ~threw
   /\ DuplicateApplies(last.before, last.action)) =>
    LET old == last.before.model
    IN IsCopy(state.selection.selectedNodeId, last.action.nodeId, old,
              state.model, DOMAIN state.model.nodes \ DOMAIN old.nodes)

\* C21: DUPLICATE_NODE of a non-root node that has a parent adds the
\* top-level clone to the children of the source's parent, sets
\* selection.selectedNodeId to the clone's id, and leaves the source node,
\* the source subtree and every node other than that parent unchanged.
C21_DuplicateFrame ==
  (/\ last.action.type = "DUPLICATE_NODE"
   /\ ~threw
   /\ DuplicateApplies(last.before, last.action)) =>
    LET old    == last.before.model
        parent == findParent(last.action.nodeId, old)
        clone  == state.selection.selectedNodeId
    IN /\ clone \in DOMAIN state.model.nodes \ DOMAIN old.nodes
       /\ state.selection.hoveredNodeId = last.before.selection.hoveredNodeId
       /\ Cardinality({i \in 1..Len(state.model.nodes[parent].children) :
                         state.model.nodes[parent].children[i] = clone}) = 1
       /\ FilterOut(state.model.nodes[parent].children, clone) =
            old.nodes[parent].children
       /\ state.model.nodes[parent] =
            [old.nodes[parent] EXCEPT
               !.children = state.model.nodes[parent].children]
       /\ \A i \in DOMAIN old.nodes \ {parent} :
            state.model.nodes[i] = old.nodes[i]

\* an assembly with a child was duplicated while another node was selected
C21_Witness ==
  /\ last.action.type = "DUPLICATE_NODE"
  /\ ~threw
  /\ DuplicateApplies(last.before, last.action)
  /\ getDescendants(last.action.nodeId, last.before.model)
       \cap DOMAIN last.before.model.nodes # {}
  /\ last.before.selection.selectedNodeId # Null
  /\ last.before.selection.selectedNodeId # last.action.nodeId
  /\ state.selection.selectedNodeId \notin DOMAIN last.before.model.nodes

\* the one node that model new has and model old has not, or Null
AddedNode(old, new) ==
  LET added == DOMAIN new.nodes \ DOMAIN old.nodes
  IN IF Cardinality(added) = 1 /\ DOMAIN old.nodes \subseteq DOMAIN new.nodes
       THEN CHOOSE i \in added : TRUE
       ELSE Null

\* new is old with node id appended to the children of parentId and no
\* other old node changed
AppendedTo(parentId, id, old, new) ==
  /\ new.rootId = old.rootId
  /\ new.nodes[parentId] =
       [old.nodes[parentId] EXCEPT
          !.children = Append(old.nodes[parentId].children, id)]
  /\ \A i \in DOMAIN old.nodes \ {parentId} : new.nodes[i] = old.nodes[i]

\* C22: on an existing assembly parent, ADD_PRIMITIVE adds exactly one node
\* with a fresh id (type primitive, the given name and primitiveType, the
\* PRIMITIVE_DEFAULTS properties of that type, default transform, visible,
\* color "#ffffff"), appends its id as the last child of parentId, selects
\* the new id, and leaves every other node unchanged.
C22_AddPrimitive ==
  /\ (/\ last.action.type = "ADD_PRIMITIVE"
      /\ IsAssembly(last.action.parentId, last.before.model)) =>
       LET old == last.before.model
           id  == AddedNode(old, state.model)
       IN /\ ~threw
          /\ id # Null
          /\ state.model.nodes[id] =
               [id |-> id, type |-> "primitive", name |-> last.action.name,
                primitiveType |-> last.action.primitiveType,
                properties |-> PRIMITIVE_DEFAULTS[last.action.primitiveType],
                transform |-> DEFAULT_TRANSFORM, visible |-> TRUE,
                color |-> "#ffffff"]
          /\ AppendedTo(last.action.parentId, id, old, state.model)
          /\ state.selection =
               [last.before.selection EXCEPT !.selectedNodeId = id]
  /\ (/\ last.action.type = "ADD_PRIMITIVE"
      /\ IsAssembly(last.action.parentId, last.before.model)) =>
       \A t \in PrimitiveTypes :
         LET old == last.before.model
             new == ADD_PRIMITIVE(last.before,
                      [last.action EXCEPT !.primitiveType = t], nextId - 1)
             id  == AddedNode(old, new.model)
         IN /\ id # Null
            /\ new.model.nodes[id].primitiveType = t
            /\ new.model.nodes[id].properties = PRIMITIVE_DEFAULTS[t]
            /\ AppendedTo(last.action.parentId, id, old, new.model)
            /\ new.selection.selectedNodeId = id

\* a primitive was added to an assembly that already had a child, while
\* another node was selected
C22_Witness ==
  /\ last.action.type = "ADD_PRIMITIVE"
  /\ ~threw
  /\ IsAssembly(last.action.parentId, last.before.model)
  /\ Len(last.before.model.nodes[last.action.parentId].children) > 0
  /\ last.before.selection.selectedNodeId # Null
  /\ AddedNode(last.before.model, state.model) # Null
  /\ state.selection.selectedNodeId = AddedNode(last.before.model, state.model)

\* C23: on an existing assembly parent, ADD_ASSEMBLY adds exactly one node
\* with a fresh id (type assembly, the given name, default transform,
\* visible, empty children), appends its id as the last child of parentId,
\* and leaves selection and every other node unchanged.
C23_AddAssembly ==
  (/\ last.action.type = "ADD_ASSEMBLY"
   /\ IsAssembly(last.action.parentId, last.before.model)) =>
    LET old == last.before.model
        id  == AddedNode(old, state.model)
    IN /\ ~threw
       /\ id # Null
       /\ state.model.nodes[id] =
            [id |-> id, type |-> "assembly", name |-> last.action.name,
             transform |-> DEFAULT_TRANSFORM, visible |-> TRUE,
             children |-> <<>>]
       /\ AppendedTo(last.action.parentId, id, old, state.model)
       /\ state.selection = last.before.selection

\* an assembly was added to an assembly that already had a child, while a
\* node was selected
C23_Witness ==
  /\ last.action.type = "ADD_ASSEMBLY"
  /\ ~threw
  /\ IsAssembly(last.action.parentId, last.before.model)
  /\ Len(last.before.model.nodes[last.action.parentId].children) > 0
  /\ last.before.selection.selectedNodeId # Null
  /\ AddedNode(last.before.model, state.model) # Null

\* C24: when validateTreeMove passes and newParentId is an existing
\* assembly, MOVE_NODE removes nodeId from its old parent's children,
\* appends it as the last child of newParentId (also when newParentId is
\* already its parent), and leaves the set of node ids, the moved node's own
\* subtree, all other children lists and the selection unchanged.
C24_MoveNode ==
  (/\ last.action.type = "MOVE_NODE"
   /\ Exists(last.action.nodeId, last.before.model)
   /\ validateTreeMove(last.action.nodeId, last.action.newParentId,
                       last.before.model)
   /\ IsAssembly(last.action.newParentId, last.before.model)) =>
    LET old       == last.before.model
        id        == last.action.nodeId
        newParent == last.action.newParentId
        oldParent == findParent(id, old)
    IN /\ ~threw
       /\ DOMAIN state.model.nodes = DOMAIN old.nodes
       /\ state.model.nodes[newParent] =
            [old.nodes[newParent] EXCEPT
               !.children = Append(FilterOut(@, id), id)]
       /\ (oldParent # Null /\ oldParent # newParent) =>
            state.model.nodes[oldParent] =
              [old.nodes[oldParent] EXCEPT !.children = FilterOut(@, id)]
       /\ \A i \in DOMAIN old.nodes \ {newParent, oldParent} :
            state.model.nodes[i] = old.nodes[i]
       /\ state.selection = last.before.selection

\* seq without its i-th entry (1-based)
RemoveAt(seq, i) == SubSeq(seq, 1, i - 1) \o SubSeq(seq, i + 1, Len(seq))

\* REORDER_CHILDREN was dispatched on an assembly with indices in range
ReorderedInRange ==
  /\ last.action.type = "REORDER_CHILDREN"
  /\ IsAssembly(last.action.parentId, last.before.model)
  /\ LET n == Len(last.before.model.nodes[last.action.parentId].children)
     IN /\ last.action.fromIndex \in 0..(n - 1)
        /\ last.action.toIndex \in 0..(n - 1)

\* C25: for an assembly parent with n children and 0 <= fromIndex, toIndex
\* < n, REORDER_CHILDREN yields a children list in which the child formerly
\* at fromIndex is at index toIndex and the remaining n - 1 children keep
\* their relative order; no other node changes.
C25_Reorder ==
  ReorderedInRange =>
    LET old    == last.before.model
        parent == last.action.parentId
        before == old.nodes[parent].children
        after  == state.model.nodes[parent].children
    IN /\ ~threw
       /\ Len(after) = Len(before)
       /\ after[last.action.toIndex + 1] = before[last.action.fromIndex + 1]
       /\ RemoveAt(after, last.action.toIndex + 1) =
            RemoveAt(before, last.action.fromIndex + 1)
       /\ state.model.nodes[parent] =
            [old.nodes[parent] EXCEPT !.children = after]
       /\ DOMAIN state.model.nodes = DOMAIN old.nodes
       /\ \A i \in DOMAIN old.nodes \ {parent} :
            state.model.nodes[i] = old.nodes[i]

\* the first of three different children was moved to the end
C25_Witness ==
  /\ ReorderedInRange
  /\ ~threw
  /\ last.action.fromIndex = 0
  /\ last.action.toIndex = 2
  /\ LET c == last.before.model.nodes[last.action.parentId].children
     IN /\ Len(c) = 3
        /\ Cardinality(Range(c)) = 3
        /\ state.model.nodes[last.action.parentId].children =
             <<c[2], c[3], c[1]>>

\* node id of model new is node id of model old with the axes of partial
\* set, and nothing else in the model changed
TransformUpdated(id, partial, old, new) ==
  /\ new.rootId = old.rootId
  /\ DOMAIN new.nodes = DOMAIN old.nodes
  /\ \A i \in DOMAIN old.nodes \ {id} : new.nodes[i] = old.nodes[i]
  /\ DOMAIN new.nodes[id] = DOMAIN old.nodes[id]
  /\ \A f \in DOMAIN old.nodes[id] \ {"transform"} :
       new.nodes[id][f] = old.nodes[id][f]
  /\ \A sub \in {"position", "rotation", "scale"} :
       \A axis \in {"x", "y", "z"} :
         new.nodes[id].transform[sub][axis] =
           IF sub \in DOMAIN partial /\ axis \in DOMAIN partial[sub]
             THEN partial[sub][axis]
             ELSE old.nodes[id].transform[sub][axis]

\* partial transforms the frame of UPDATE_TRANSFORM is tried with
PartialTransforms ==
  {[position |-> [y |-> -100]],
   [rotation |-> [x |-> 4500, z |-> 9000]],
   [scale |-> [x |-> 300, z |-> 50], position |-> [x |-> 0]]}

\* C26: UPDATE_TRANSFORM on an existing node changes only the axes present
\* in the partial: within each of position, rotation and scale, axes absent
\* from the partial keep their previous values; sub-fields absent from the
\* partial are unchanged; no other field of the node and no other node
\* changes.
C26_TransformFrame ==
  /\ (/\ last.action.type = "UPDATE_TRANSFORM"
      /\ Exists(last.action.nodeId, last.before.model)) =>
       /\ ~threw
       /\ TransformUpdated(last.action.nodeId, last.action.transform,
                           last.before.model, state.model)
       /\ state.selection = last.before.selection
  /\ (/\ last.action.type = "UPDATE_TRANSFORM"
      /\ Exists(last.action.nodeId, last.before.model)) =>
       \A partial \in PartialTransforms :
         TransformUpdated(last.action.nodeId, partial, state.model,
           UPDATE_TRANSFORM(state, [last.action EXCEPT
                                      !.transform = partial]).model)

\* a rotation was set on a node whose position and scale had been changed
\* before, and they were kept
C26_Witness ==
  /\ last.action.type = "UPDATE_TRANSFORM"
  /\ ~threw
  /\ Exists(last.action.nodeId, last.before.model)
  /\ DOMAIN last.action.transform = {"rotation"}
  /\ LET t == state.model.nodes[last.action.nodeId].transform
     IN /\ t.position.x = 500
        /\ t.scale.y = 200
        /\ t.rotation.z = 9000

\* C27: TOGGLE_VISIBILITY on an existing node flips only that node's
\* visible flag (no descendant, no other field and no other node changes),
\* and applying it twice to the same node restores the original model.
C27_ToggleVisibility ==
  (/\ last.action.type = "TOGGLE_VISIBILITY"
   /\ Exists(last.action.nodeId, last.before.model)) =>
    LET old == last.before.model
        id  == last.action.nodeId
    IN /\ ~threw
       /\ state.model =
            [old EXCEPT !.nodes[id].visible = ~old.nodes[id].visible]
       /\ state.model # old
       /\ state.selection = last.before.selection
       /\ TOGGLE_VISIBILITY(state, last.action).model = old

\* a hidden assembly with a child was toggled back to visible
C27_Witness ==
  /\ last.action.type = "TOGGLE_VISIBILITY"
  /\ ~threw
  /\ Exists(last.action.nodeId, last.before.model)
  /\ getDescendants(last.action.nodeId, last.before.model)
       \cap DOMAIN last.before.model.nodes # {}
  /\ ~last.before.model.nodes[last.action.nodeId].visible
  /\ state.model.nodes[last.action.nodeId].visible

\* C28: createInitialState returns a state whose model contains only the
\* root node (an assembly with no children), whose selectedNodeId and
\* hoveredNodeId are null, whose history has exactly one snapshot equal to
\* that model and selection, and whose historyIndex is 0.
C28_InitialState ==
  steps = 0 =>
    /\ DOMAIN state.model.nodes = {state.model.rootId}
    /\ state.model.nodes[state.model.rootId].id = state.model.rootId
    /\ state.model.nodes[state.model.rootId].type = "assembly"
    /\ state.model.nodes[state.model.rootId].children = <<>>
    /\ state.selection = [selectedNodeId |-> Null, hoveredNodeId |-> Null]
    /\ Len(state.history) = 1
    /\ View(state.history[1]) = View(state)
    /\ state.historyIndex = 0

\* the state the store starts from, before any action
C28_Witness ==
  /\ steps = 0
  /\ state = createInitialState
  /\ last.action.type = "INIT"

\* the degrees over which the claim about normalizeAngle is checked
MaxDegrees == 720

\* d degrees in radians: (d * Math.PI) / 180
Radians(d) == Div(Mul(FromInt(d), MathPI), FromInt(180))

\* the panel's last edit, when the last dispatch was one
Edited(field) ==
  /\ "edit" \in DOMAIN last
  /\ last.edit.field = field
  /\ ~threw

\* the field of the edited node before and after the panel's last edit
EditedOld == last.before.model.nodes[last.action.nodeId]
               .transform[last.edit.field]

EditedNew == state.model.nodes[last.action.nodeId].transform[last.edit.field]

\* C29: normalizeAngle maps every integer degree value d to a value in the
\* range -180..180 that is congruent to d modulo 360, and 270 degrees
\* normalizes to -90 degrees: the angle an unlinked rotation edit has stored
\* for the typed d is such a value in radians, which is -90 degrees for
\* 270, and the result for every d of -MaxDegrees..MaxDegrees is such a
\* value (computed where 270 has been typed for x).
C29_NormalizeAngle ==
  Edited("rotation") =>
    /\ (last.edit.value = 270 /\ last.edit.axis = "x") =>
         \A d \in (-MaxDegrees)..MaxDegrees :
           /\ normalizeAngle(d) \in (-180)..180
           /\ (normalizeAngle(d) - d) % 360 = 0
    /\ normalizeAngle(270) = -90
    /\ ~last.edit.linked =>
         /\ \E m \in (-180)..180 :
              /\ (m - last.edit.value) % 360 = 0
              /\ EditedNew[last.edit.axis] = Radians(m)
         /\ last.edit.value = 270 => EditedNew[last.edit.axis] = Radians(-90)

\* an unlinked rotation edit of 270 degrees for x has stored -90 degrees
C29_Witness ==
  /\ Edited("rotation")
  /\ ~last.edit.linked
  /\ last.edit.value = 270
  /\ last.edit.axis = "x"
  /\ EditedNew[last.edit.axis] = Radians(-90)

\* a linked edit of position or scale whose old value on the edited axis is
\* not 0
LinkedEdit ==
  /\ Edited("position") \/ Edited("scale")
  /\ last.edit.linked
  /\ ~IsZero(EditedOld[last.edit.axis])

\* C30: with linking enabled for position or scale, changing axis a from a
\* non-zero old value to v multiplies all three axes by v / old, so that
\* the edited axis ends at v; position {x:2,y:3,z:1} with x set to 4
\* becomes {x:4,y:6,z:2} and {x:2,y:0,z:0} becomes {x:4,y:0,z:0}.
C30_LinkedScaling ==
  LinkedEdit =>
    LET v     == FromInt(last.edit.value)
        ratio == Div(v, EditedOld[last.edit.axis])
    IN  /\ last.action.type = "UPDATE_TRANSFORM"
        /\ \A b \in Axes : EditedNew[b] = Mul(EditedOld[b], ratio)
        /\ EditedNew[last.edit.axis] = v

\* the two examples of the claim, and the scaling whenever the old value is
\* at least 0.0001 in magnitude
C30_ScalesAboveThreshold ==
  (LinkedEdit /\ ~AbsLess(EditedOld[last.edit.axis], Epsilon)) =>
    LET v     == FromInt(last.edit.value)
        ratio == Div(v, EditedOld[last.edit.axis])
    IN  /\ \A b \in Axes : EditedNew[b] = Mul(EditedOld[b], ratio)
        /\ (last.edit.axis = "x" /\ last.edit.value = 4) =>
             /\ EditedOld = Vec(FromInt(2), FromInt(3), FromInt(1))
                  => EditedNew = Vec(FromInt(4), FromInt(6), FromInt(2))
             /\ EditedOld = Vec(FromInt(2), Zero, Zero)
                  => EditedNew = Vec(FromInt(4), Zero, Zero)

\* both examples of the claim have been edited
C30_Examples ==
  /\ LinkedEdit
  /\ last.edit.axis = "x" /\ last.edit.value = 4
  /\ EditedOld = Vec(FromInt(2), FromInt(3), FromInt(1))
  /\ EditedNew = Vec(FromInt(4), FromInt(6), FromInt(2))

\* C31: in every reachable state the live model equals the model of the
\* snapshot at the current index: model.rootId and model.nodes are equal in
\* content to those of history[historyIndex].
C31_LiveIsSnapshot ==
  LET snap == state.history[state.historyIndex + 1]
  IN  /\ snap.model.rootId = state.model.rootId
      /\ snap.model.nodes = state.model.nodes

\* C32: if SELECT_NODE is only ever dispatched with null or with an id
\* present in the current model, then in every reachable state (in
\* particular after DELETE_NODE of an ancestor of the selected node, and
\* after UNDO or REDO) selection.selectedNodeId is null or a key of
\* model.nodes. (SpecTree dispatches no SELECT_NODE.)
C32_SelectionValid ==
  \/ state.selection.selectedNodeId = Null
  \/ Exists(state.selection.selectedNodeId, state.model)

\* C33: in any reachable state with historyIndex > 0, UNDO immediately
\* followed by REDO returns a state whose model, selection, history and
\* historyIndex all equal those before the UNDO, including when SELECT_NODE
\* actions were applied since the last history-significant action.
C33_UndoThenRedo ==
  (state.historyIndex > 0 /\ ~threw) =>
    LET back == modelReducer(modelReducer(state, [type |-> "UNDO"], nextId),
                             [type |-> "REDO"], nextId)
    IN  /\ back.model = state.model
        /\ back.selection = state.selection
        /\ back.history = state.history
        /\ back.historyIndex = state.historyIndex

\* the same for a state in which the live selection is the one of the
\* snapshot at the current index
C33_UndoThenRedoUnselected ==
  (/\ state.historyIndex > 0
   /\ ~threw
   /\ state.selection = state.history[state.historyIndex + 1].selection
   /\ C31_LiveIsSnapshot) =>
    LET back == modelReducer(modelReducer(state, [type |-> "UNDO"], nextId),
                             [type |-> "REDO"], nextId)
    IN  /\ back.model = state.model
        /\ back.selection = state.selection
        /\ back.history = state.history
        /\ back.historyIndex = state.historyIndex

\* the number of entries of seq equal to v
Occurrences(v, seq) == Cardinality({i \in 1..Len(seq) : seq[i] = v})

\* C34: for any integers fromIndex and toIndex, including negative ones and
\* ones >= the number of children, REORDER_CHILDREN on an assembly yields a
\* children list that is a permutation of the previous list: same length,
\* same ids, no undefined or missing entry.
C34_ReorderPermutes ==
  (/\ last.action.type = "REORDER_CHILDREN"
   /\ ~threw
   /\ last.before.model.nodes[last.action.parentId].type = "assembly") =>
    LET old == last.before.model.nodes[last.action.parentId].children
        new == state.model.nodes[last.action.parentId].children
    IN  /\ Len(new) = Len(old)
        /\ \A i \in 1..Len(new) : new[i] # Undefined
        /\ \A i \in 1..Len(old) :
             Occurrences(old[i], new) = Occurrences(old[i], old)

\* C35: MOVE_NODE whose nodeId is not a key of model.nodes leaves the model
\* unchanged: no id that is absent from model.nodes is ever appended to
\* newParentId's children.
C35_MoveMissingNode ==
  (/\ last.action.type = "MOVE_NODE"
   /\ ~threw
   /\ ~Exists(last.action.nodeId, last.before.model)) =>
    state.model = last.before.model

\* the assemblies that list id among their children
Parents(id, model) ==
  {p \in Assemblies(model) : id \in Range(model.nodes[p].children)}

\* C36: restricted to well-formed actions (every referenced node id exists,
\* parentId / newParentId is an assembly, REORDER_CHILDREN indices lie in
\* 0..length-1, UPDATE_NODE updates contain no id, type or children), every
\* state reachable from createInitialState, UNDO and REDO included,
\* satisfies: model.nodes is exactly the set of nodes reachable from rootId
\* through children, every non-root node has exactly one parent, and there
\* is no cycle.
C36_WellFormedTree ==
  LET model == state.model
  IN  /\ DOMAIN model.nodes =
           {model.rootId} \cup getDescendants(model.rootId, model)
      /\ \A id \in DOMAIN model.nodes \ {model.rootId} :
           Cardinality(Parents(id, model)) = 1
      /\ \A id \in DOMAIN model.nodes :
           id \notin getDescendants(id, model)

\* an assembly with a child of its own was moved under another assembly and
\* the move was undone
C36_Witness ==
  /\ last.action.type = "UNDO"
  /\ ~threw
  /\ state.model # last.before.model
  /\ \E a \in DOMAIN last.before.model.nodes \ {last.before.model.rootId} :
       /\ last.before.model.nodes[a].type = "assembly"
       /\ last.before.model.nodes[a].children # <<>>
       /\ Parents(a, last.before.model) # Parents(a, state.model)

\* the last step was a drag in the tree view
Dragged == "drag" \in DOMAIN last

\* C37: every action dispatched by the tree's handleDragEnd satisfies its
\* reducer precondition, and at most one action is dispatched per drag:
\* MOVE_NODE only when the drop target is an existing assembly different
\* from the dragged node's current parent and validateTreeMove passes;
\* REORDER_CHILDREN only when dragged and target node have the same parent
\* and both indices lie in 0..length-1 of that parent's children.
C37_DragDispatches ==
  Dragged =>
    LET model    == last.before.model
        activeId == last.drag.activeId
        overId   == last.drag.over.id
        a        == last.action
    IN  /\ Len(last.drag.dispatched) = 1
        /\ ~threw
        /\ a.type \in {"MOVE_NODE", "REORDER_CHILDREN"}
        /\ a.type = "MOVE_NODE" =>
             /\ a.nodeId = activeId /\ a.newParentId = overId
             /\ Exists(activeId, model)
             /\ IsAssembly(overId, model)
             /\ overId \notin Parents(activeId, model)
             /\ validateTreeMove(activeId, overId, model)
        /\ a.type = "REORDER_CHILDREN" =>
             /\ IsAssembly(a.parentId, model)
             /\ Parents(activeId, model) = {a.parentId}
             /\ Parents(overId, model) = {a.parentId}
             /\ LET children == model.nodes[a.parentId].children
                IN  /\ a.fromIndex \in 0..(Len(children) - 1)
                    /\ a.toIndex \in 0..(Len(children) - 1)
                    /\ children[a.fromIndex + 1] = activeId
                    /\ children[a.toIndex + 1] = overId

\* a drag onto an assembly that is not the parent has moved the node
C37_Witness ==
  /\ Dragged
  /\ last.action.type = "MOVE_NODE"
  /\ ~threw
  /\ last.action.nodeId \in
       Range(state.model.nodes[last.action.newParentId].children)
  /\ last.action.nodeId \notin
       Range(last.before.model.nodes[last.action.newParentId].children)

\* C38: the parentId that TreeControls puts into ADD_PRIMITIVE and
\* ADD_ASSEMBLY is, in every reachable state, a key of model.nodes whose
\* node is an assembly: the selected node when it is an assembly, the parent
\* of the selected node when it is a primitive, and the root when nothing
\* is selected or the selected id is no longer in the model.
C38_ParentIsAssembly ==
  LET parentId == TreeControlsParentId(state)
      selected == state.selection.selectedNodeId
      model    == state.model
  IN  /\ IsAssembly(parentId, model)
      /\ IF selected = Null \/ ~Exists(selected, model)
           THEN parentId = model.rootId
         ELSE IF model.nodes[selected].type = "assembly"
           THEN parentId = selected
         ELSE selected \in Range(model.nodes[parentId].children)

(* ------------------------------ size edits ----------------------------- *)

\* the step was an unlinked edit of a size field
UnlinkedSizeEdit ==
  /\ "edit" \in DOMAIN last
  /\ last.edit.field = "size"
  /\ ~last.edit.linked

SizedBefore == last.before.model.nodes[last.action.nodeId]

SizedNow == state.model.nodes[last.action.nodeId]

\* C39: after an unlinked size change of axis a to v, the size computed
\* from the updated properties has v on axis a, for every primitive type
\* and every axis
C39_SizeReported ==
  UnlinkedSizeEdit =>
    getPrimitiveSize(SizedNow.primitiveType,
                     SizedNow.properties)[last.edit.axis] = last.edit.value

\* the axes whose value updatePrimitiveFromSize reads back for the type
StoredAxes(primitiveType) ==
  CASE primitiveType \in {"box", "pyramid"} -> {"x", "y", "z"}
    [] primitiveType \in {"cylinder", "cone"} -> {"x", "y"}
    [] primitiveType = "sphere" -> {"x"}
    [] primitiveType = "torus" -> {"y"}

\* C39 on the axes of StoredAxes: holds
C39_SizeReportedOnStoredAxes ==
  (UnlinkedSizeEdit /\ last.edit.axis \in StoredAxes(SizedNow.primitiveType))
    => getPrimitiveSize(SizedNow.primitiveType,
                        SizedNow.properties)[last.edit.axis] = last.edit.value

\* the step typed the value the field showed
SameValueEdit ==
  /\ UnlinkedSizeEdit
  /\ last.edit.value = getPrimitiveSize(SizedBefore.primitiveType,
                                        SizedBefore.properties)[last.edit.axis]

\* C40: an unlinked size edit to the value the axis shows already leaves the
\* primitive's properties as they were, for every primitive type
C40_SameValueKeeps ==
  SameValueEdit => SizedNow.properties = SizedBefore.properties

\* C40 for every type but the torus: holds
C40_SameValueKeepsButTorus ==
  (SameValueEdit /\ SizedNow.primitiveType # "torus")
    => SizedNow.properties = SizedBefore.properties

====
